---------------------------- MODULE Spec2Model ----------------------------
(***************************************************************************)
(* A model of the M50740 instruction executor                              *)
(* (src/InstructionSets/M50740/Executor.cpp): its register file, its       *)
(* memory image, the bus facade (read/write), the stack, the packed        *)
(* status byte, the performers and the clock adapter.                      *)
(*                                                                         *)
(* C++ integers keep their widths: uint8_t values are reduced modulo 256,  *)
(* uint16_t values modulo 65536, int values are mathematical integers      *)
(* (they stay far from 2^31 here).                                         *)
(***************************************************************************)
EXTENDS Integers, Sequences, FiniteSets, TLC

VARIABLES
    a_, x_, y_, s_,             \* accumulator, index registers, stack pointer (uint8_t)
    program_counter_,           \* uint16_t; every use masks it with 0x1fff
    negative_result_,           \* uint8_t; flag N is its bit 7
    overflow_result_,           \* uint8_t; flag V is its bit 7
    zero_result_,               \* uint8_t; flag Z is set iff it is 0
    index_mode_,                \* bool; flag T
    decimal_mode_,              \* bool; flag D
    interrupt_disable_,         \* uint8_t; 0x04 or 0x00
    carry_flag_,                \* uint8_t; 1 or 0
    memory_,                    \* uint8_t[0x2000]: the bytes of RAM and every byte
                                \* loaded since; all other bytes are still 0
    cycles_,                    \* ticks not yet turned into engine units
    remaining_duration_,        \* signed budget of the execution loop
    is_stopped_,                \* the stop latch
    last                        \* observation: the last call made and what it saw

vars == <<a_, x_, y_, s_, program_counter_, negative_result_, overflow_result_,
          zero_result_, index_mode_, decimal_mode_, interrupt_disable_,
          carry_flag_, memory_, cycles_, remaining_duration_, is_stopped_, last>>

---------------------------------------------------------------------------
(* Program constants.                                                      *)

MemorySize == 8192
AddressMask == 8191
RamTop == 96
RomSize == 4096
ResetVector == 8190
InterruptVector == 8180
ClockDivider == 4
BreakMarker == 16

Byte == 0 .. 255

---------------------------------------------------------------------------
(* C integer operators.                                                    *)

RECURSIVE BitAnd(_, _)
BitAnd(p, q) ==
    IF p = 0 \/ q = 0 THEN 0
    ELSE (p % 2) * (q % 2) + 2 * BitAnd(p \div 2, q \div 2)

RECURSIVE BitOr(_, _)
BitOr(p, q) ==
    IF p = 0 THEN q
    ELSE IF q = 0 THEN p
    ELSE (IF p % 2 = 1 \/ q % 2 = 1 THEN 1 ELSE 0) + 2 * BitOr(p \div 2, q \div 2)

RECURSIVE BitXor(_, _)
BitXor(p, q) ==
    IF p = 0 THEN q
    ELSE IF q = 0 THEN p
    ELSE ((p + q) % 2) + 2 * BitXor(p \div 2, q \div 2)

\* uint8_t(v) and uint16_t(v) of an int v (two's complement truncation).
U8(v) == v % 256
U16(v) == v % 65536
\* S8 with the cast to int8_t lost: the displacement is taken unsigned.
MutS8(b) == b

\* int8_t(b) of a byte b.
S8(b) == IF b >= 128 THEN b - 256 ELSE b
\* bit n of v, as 0 or 1.
Bit(v, n) == (v \div (2 ^ n)) % 2

---------------------------------------------------------------------------
(* The engine's state as one record, so that the handlers below are        *)
(* functions from state to state.                                          *)

State ==
    [a_ |-> a_, x_ |-> x_, y_ |-> y_, s_ |-> s_,
     program_counter_ |-> program_counter_,
     negative_result_ |-> negative_result_,
     overflow_result_ |-> overflow_result_,
     zero_result_ |-> zero_result_,
     index_mode_ |-> index_mode_,
     decimal_mode_ |-> decimal_mode_,
     interrupt_disable_ |-> interrupt_disable_,
     carry_flag_ |-> carry_flag_,
     memory_ |-> memory_,
     remaining_duration_ |-> remaining_duration_,
     is_stopped_ |-> is_stopped_]

\* The state st becomes the next state of the engine.
BecomesState(st) ==
    /\ a_' = st.a_
    /\ x_' = st.x_
    /\ y_' = st.y_
    /\ s_' = st.s_
    /\ program_counter_' = st.program_counter_
    /\ negative_result_' = st.negative_result_
    /\ overflow_result_' = st.overflow_result_
    /\ zero_result_' = st.zero_result_
    /\ index_mode_' = st.index_mode_
    /\ decimal_mode_' = st.decimal_mode_
    /\ interrupt_disable_' = st.interrupt_disable_
    /\ carry_flag_' = st.carry_flag_
    /\ memory_' = st.memory_
    /\ remaining_duration_' = st.remaining_duration_
    /\ is_stopped_' = st.is_stopped_

\* The value of the expression next, computed once, becomes the next state.
Becomes(next) == \E st \in {next} : BecomesState(st)

---------------------------------------------------------------------------
(* Bus facade.                                                             *)

PortR == 208 .. 223
PortsP == {224, 225, 226, 227, 228, 229, 232, 233}
Timers == 249 .. 255

\* memory_[index], for an index within the array.
Mem(st, index) ==
    IF index \in DOMAIN st.memory_ THEN st.memory_[index] ELSE 0

\* memory_[index] = value, for an index within the array.
MemSet(st, index, value) ==
    IF index \in DOMAIN st.memory_
    THEN [st EXCEPT !.memory_[index] = value]
    ELSE [st EXCEPT !.memory_ = (index :> value) @@ @]

\* Executor::read
Read(st, address) ==
    LET masked == BitAnd(address, AddressMask)
    IN  IF masked \in PortR \cup PortsP \cup Timers THEN 255
        ELSE Mem(st, masked)

\* Write with the RAM test lost: every masked address is stored.
MutWrite(st, address, value) ==
    MemSet(st, BitAnd(address, AddressMask), value)

\* Executor::write
Write(st, address, value) ==
    LET masked == BitAnd(address, AddressMask)
    IN  IF masked < RamTop
        THEN MemSet(st, masked, value)
        ELSE st

\* Push decrementing before it writes.
MutPush(st, value) ==
    Write([st EXCEPT !.s_ = U8(st.s_ - 1)], U8(st.s_ - 1), value)

\* Executor::push
Push(st, value) ==
    [Write(st, st.s_, value) EXCEPT !.s_ = U8(st.s_ - 1)]

\* Executor::pull: the state after it, and the byte it returns.
Pull(st) ==
    LET inc == [st EXCEPT !.s_ = U8(st.s_ + 1)]
    IN  [st |-> inc, value |-> Read(inc, inc.s_)]

---------------------------------------------------------------------------
(* The packed status byte.                                                 *)

\* SetFlags with the zero store taken straight from the bit (the store is
\* zero when the flag is set, so this inverts Z).
MutSetFlags(st, flags) ==
    [st EXCEPT !.negative_result_ = flags,
               !.overflow_result_ = U8(flags * 2),
               !.index_mode_ = BitAnd(flags, 32) # 0,
               !.decimal_mode_ = BitAnd(flags, 8) # 0,
               !.interrupt_disable_ = BitAnd(flags, 4),
               !.zero_result_ = BitAnd(flags, 2),
               !.carry_flag_ = BitAnd(flags, 1)]

\* SetFlags with the carry and interrupt-disable stores taken from the
\* byte without their masks.
MutSetFlagsUnmasked(st, flags) ==
    [st EXCEPT !.negative_result_ = flags,
               !.overflow_result_ = U8(flags * 2),
               !.index_mode_ = BitAnd(flags, 32) # 0,
               !.decimal_mode_ = BitAnd(flags, 8) # 0,
               !.interrupt_disable_ = BitAnd(flags, 4 + 16),
               !.zero_result_ = IF BitAnd(flags, 2) = 0 THEN 1 ELSE 0,
               !.carry_flag_ = BitAnd(flags, 1 + 16)]

\* Executor::set_flags
SetFlags(st, flags) ==
    [st EXCEPT !.negative_result_ = flags,
               !.overflow_result_ = U8(flags * 2),
               !.index_mode_ = BitAnd(flags, 32) # 0,
               !.decimal_mode_ = BitAnd(flags, 8) # 0,
               !.interrupt_disable_ = BitAnd(flags, 4),
               !.zero_result_ = IF BitAnd(flags, 2) = 0 THEN 1 ELSE 0,
               !.carry_flag_ = BitAnd(flags, 1)]

\* Executor::flags
Flags(st) ==
    BitOr(BitAnd(st.negative_result_, 128),
    BitOr(BitAnd(st.overflow_result_, 128) \div 2,
    BitOr(IF st.index_mode_ THEN 32 ELSE 0,
    BitOr(IF st.decimal_mode_ THEN 8 ELSE 0,
    BitOr(st.interrupt_disable_,
    BitOr(IF st.zero_result_ # 0 THEN 0 ELSE 2,
          st.carry_flag_))))))

---------------------------------------------------------------------------
(* The instruction set: what the decoder, size() and access_type() give.   *)
(* Their source is not part of the files at hand; they follow the          *)
(* specification (a total decoder with a distinguished Invalid case) and   *)
(* the M50740 opcode map the executor's own case lists are written for.    *)

I(operation, addressing_mode) ==
    [operation |-> operation, addressing_mode |-> addressing_mode]

OpcodeTable == <<
    \* 0x00 - 0x0f
    I("BRK", "Implied"), I("ORA", "XIndirect"), I("JSR", "ZeroPageIndirect"), I("BBS0", "AccumulatorRelative"),
    I("Invalid", "Implied"), I("ORA", "ZeroPage"), I("ASL", "ZeroPage"), I("BBS0", "ZeroPageRelative"),
    I("PHP", "Implied"), I("ORA", "Immediate"), I("ASL", "Accumulator"), I("SEB0", "Accumulator"),
    I("Invalid", "Implied"), I("ORA", "Absolute"), I("ASL", "Absolute"), I("SEB0", "ZeroPage"),
    \* 0x10 - 0x1f
    I("BPL", "Relative"), I("ORA", "IndirectY"), I("CLT", "Implied"), I("BBC0", "AccumulatorRelative"),
    I("Invalid", "Implied"), I("ORA", "ZeroPageX"), I("ASL", "ZeroPageX"), I("BBC0", "ZeroPageRelative"),
    I("CLC", "Implied"), I("ORA", "AbsoluteY"), I("DEC", "Accumulator"), I("CLB0", "Accumulator"),
    I("Invalid", "Implied"), I("ORA", "AbsoluteX"), I("ASL", "AbsoluteX"), I("CLB0", "ZeroPage"),
    \* 0x20 - 0x2f
    I("JSR", "Absolute"), I("AND", "XIndirect"), I("JSR", "SpecialPage"), I("BBS1", "AccumulatorRelative"),
    I("BIT", "ZeroPage"), I("AND", "ZeroPage"), I("ROL", "ZeroPage"), I("BBS1", "ZeroPageRelative"),
    I("PLP", "Implied"), I("AND", "Immediate"), I("ROL", "Accumulator"), I("SEB1", "Accumulator"),
    I("BIT", "Absolute"), I("AND", "Absolute"), I("ROL", "Absolute"), I("SEB1", "ZeroPage"),
    \* 0x30 - 0x3f
    I("BMI", "Relative"), I("AND", "IndirectY"), I("SET", "Implied"), I("BBC1", "AccumulatorRelative"),
    I("Invalid", "Implied"), I("AND", "ZeroPageX"), I("ROL", "ZeroPageX"), I("BBC1", "ZeroPageRelative"),
    I("SEC", "Implied"), I("AND", "AbsoluteY"), I("INC", "Accumulator"), I("CLB1", "Accumulator"),
    I("LDM", "ImmediateZeroPage"), I("AND", "AbsoluteX"), I("ROL", "AbsoluteX"), I("CLB1", "ZeroPage"),
    \* 0x40 - 0x4f
    I("RTI", "Implied"), I("EOR", "XIndirect"), I("STP", "Implied"), I("BBS2", "AccumulatorRelative"),
    I("COM", "ZeroPage"), I("EOR", "ZeroPage"), I("LSR", "ZeroPage"), I("BBS2", "ZeroPageRelative"),
    I("PHA", "Implied"), I("EOR", "Immediate"), I("LSR", "Accumulator"), I("SEB2", "Accumulator"),
    I("JMP", "Absolute"), I("EOR", "Absolute"), I("LSR", "Absolute"), I("SEB2", "ZeroPage"),
    \* 0x50 - 0x5f
    I("BVC", "Relative"), I("EOR", "IndirectY"), I("Invalid", "Implied"), I("BBC2", "AccumulatorRelative"),
    I("Invalid", "Implied"), I("EOR", "ZeroPageX"), I("LSR", "ZeroPageX"), I("BBC2", "ZeroPageRelative"),
    I("CLI", "Implied"), I("EOR", "AbsoluteY"), I("Invalid", "Implied"), I("CLB2", "Accumulator"),
    I("Invalid", "Implied"), I("EOR", "AbsoluteX"), I("LSR", "AbsoluteX"), I("CLB2", "ZeroPage"),
    \* 0x60 - 0x6f
    I("RTS", "Implied"), I("ADC", "XIndirect"), I("Invalid", "Implied"), I("BBS3", "AccumulatorRelative"),
    I("TST", "ZeroPage"), I("ADC", "ZeroPage"), I("ROR", "ZeroPage"), I("BBS3", "ZeroPageRelative"),
    I("PLA", "Implied"), I("ADC", "Immediate"), I("ROR", "Accumulator"), I("SEB3", "Accumulator"),
    I("JMP", "AbsoluteIndirect"), I("ADC", "Absolute"), I("ROR", "Absolute"), I("SEB3", "ZeroPage"),
    \* 0x70 - 0x7f
    I("BVS", "Relative"), I("ADC", "IndirectY"), I("Invalid", "Implied"), I("BBC3", "AccumulatorRelative"),
    I("Invalid", "Implied"), I("ADC", "ZeroPageX"), I("ROR", "ZeroPageX"), I("BBC3", "ZeroPageRelative"),
    I("SEI", "Implied"), I("ADC", "AbsoluteY"), I("Invalid", "Implied"), I("CLB3", "Accumulator"),
    I("Invalid", "Implied"), I("ADC", "AbsoluteX"), I("ROR", "AbsoluteX"), I("CLB3", "ZeroPage"),
    \* 0x80 - 0x8f
    I("BRA", "Relative"), I("STA", "XIndirect"), I("RRF", "ZeroPage"), I("BBS4", "AccumulatorRelative"),
    I("STY", "ZeroPage"), I("STA", "ZeroPage"), I("STX", "ZeroPage"), I("BBS4", "ZeroPageRelative"),
    I("DEY", "Implied"), I("Invalid", "Implied"), I("TXA", "Implied"), I("SEB4", "Accumulator"),
    I("STY", "Absolute"), I("STA", "Absolute"), I("STX", "Absolute"), I("SEB4", "ZeroPage"),
    \* 0x90 - 0x9f
    I("BCC", "Relative"), I("STA", "IndirectY"), I("Invalid", "Implied"), I("BBC4", "AccumulatorRelative"),
    I("STY", "ZeroPageX"), I("STA", "ZeroPageX"), I("STX", "ZeroPageY"), I("BBC4", "ZeroPageRelative"),
    I("TYA", "Implied"), I("STA", "AbsoluteY"), I("TXS", "Implied"), I("CLB4", "Accumulator"),
    I("Invalid", "Implied"), I("STA", "AbsoluteX"), I("Invalid", "Implied"), I("CLB4", "ZeroPage"),
    \* 0xa0 - 0xaf
    I("LDY", "Immediate"), I("LDA", "XIndirect"), I("LDX", "Immediate"), I("BBS5", "AccumulatorRelative"),
    I("LDY", "ZeroPage"), I("LDA", "ZeroPage"), I("LDX", "ZeroPage"), I("BBS5", "ZeroPageRelative"),
    I("TAY", "Implied"), I("LDA", "Immediate"), I("TAX", "Implied"), I("SEB5", "Accumulator"),
    I("LDY", "Absolute"), I("LDA", "Absolute"), I("LDX", "Absolute"), I("SEB5", "ZeroPage"),
    \* 0xb0 - 0xbf
    I("BCS", "Relative"), I("LDA", "IndirectY"), I("JMP", "ZeroPageIndirect"), I("BBC5", "AccumulatorRelative"),
    I("LDY", "ZeroPageX"), I("LDA", "ZeroPageX"), I("LDX", "ZeroPageY"), I("BBC5", "ZeroPageRelative"),
    I("CLV", "Implied"), I("LDA", "AbsoluteY"), I("TSX", "Implied"), I("CLB5", "Accumulator"),
    I("LDY", "AbsoluteX"), I("LDA", "AbsoluteX"), I("LDX", "AbsoluteY"), I("CLB5", "ZeroPage"),
    \* 0xc0 - 0xcf
    I("CPY", "Immediate"), I("CMP", "XIndirect"), I("SLW", "Implied"), I("BBS6", "AccumulatorRelative"),
    I("CPY", "ZeroPage"), I("CMP", "ZeroPage"), I("DEC", "ZeroPage"), I("BBS6", "ZeroPageRelative"),
    I("INY", "Implied"), I("CMP", "Immediate"), I("DEX", "Implied"), I("SEB6", "Accumulator"),
    I("CPY", "Absolute"), I("CMP", "Absolute"), I("DEC", "Absolute"), I("SEB6", "ZeroPage"),
    \* 0xd0 - 0xdf
    I("BNE", "Relative"), I("CMP", "IndirectY"), I("Invalid", "Implied"), I("BBC6", "AccumulatorRelative"),
    I("Invalid", "Implied"), I("CMP", "ZeroPageX"), I("DEC", "ZeroPageX"), I("BBC6", "ZeroPageRelative"),
    I("CLD", "Implied"), I("CMP", "AbsoluteY"), I("Invalid", "Implied"), I("CLB6", "Accumulator"),
    I("Invalid", "Implied"), I("CMP", "AbsoluteX"), I("DEC", "AbsoluteX"), I("CLB6", "ZeroPage"),
    \* 0xe0 - 0xef
    I("CPX", "Immediate"), I("SBC", "XIndirect"), I("FST", "Implied"), I("BBS7", "AccumulatorRelative"),
    I("CPX", "ZeroPage"), I("SBC", "ZeroPage"), I("INC", "ZeroPage"), I("BBS7", "ZeroPageRelative"),
    I("INX", "Implied"), I("SBC", "Immediate"), I("NOP", "Implied"), I("SEB7", "Accumulator"),
    I("CPX", "Absolute"), I("SBC", "Absolute"), I("INC", "Absolute"), I("SEB7", "ZeroPage"),
    \* 0xf0 - 0xff
    I("BEQ", "Relative"), I("SBC", "IndirectY"), I("Invalid", "Implied"), I("BBC7", "AccumulatorRelative"),
    I("Invalid", "Implied"), I("SBC", "ZeroPageX"), I("INC", "ZeroPageX"), I("BBC7", "ZeroPageRelative"),
    I("SED", "Implied"), I("SBC", "AbsoluteY"), I("Invalid", "Implied"), I("CLB7", "Accumulator"),
    I("Invalid", "Implied"), I("SBC", "AbsoluteX"), I("INC", "AbsoluteX"), I("CLB7", "ZeroPage")
    >>

\* Decoder::instrucion_for_opcode
Decode(opcode) == OpcodeTable[opcode + 1]

\* size(addressing_mode): the number of operand bytes.
Size(addressing_mode) ==
    CASE addressing_mode \in {"Implied", "Accumulator"} -> 0
      [] addressing_mode \in {"Immediate", "ZeroPage", "ZeroPageX", "ZeroPageY",
                              "XIndirect", "IndirectY", "Relative",
                              "ZeroPageIndirect", "SpecialPage",
                              "AccumulatorRelative"} -> 1
      [] addressing_mode \in {"Absolute", "AbsoluteX", "AbsoluteY",
                              "AbsoluteIndirect", "ImmediateZeroPage",
                              "ZeroPageRelative"} -> 2

BBSOps == <<"BBS0", "BBS1", "BBS2", "BBS3", "BBS4", "BBS5", "BBS6", "BBS7">>
BBCOps == <<"BBC0", "BBC1", "BBC2", "BBC3", "BBC4", "BBC5", "BBC6", "BBC7">>
SEBOps == <<"SEB0", "SEB1", "SEB2", "SEB3", "SEB4", "SEB5", "SEB6", "SEB7">>
CLBOps == <<"CLB0", "CLB1", "CLB2", "CLB3", "CLB4", "CLB5", "CLB6", "CLB7">>

SeqSet(ops) == {ops[n] : n \in DOMAIN ops}

\* IndexIn with the operation's place in its family lost: always bit 0.
MutIndexIn(ops, operation) == 0

\* int(operation) - int(first operation of its family): the bit index.
IndexIn(ops, operation) == (CHOOSE n \in DOMAIN ops : ops[n] = operation) - 1

AccumulatorOps == {"ADC", "AND", "CMP", "EOR", "LDA", "ORA", "SBC"}
ShiftOps == {"ASL", "DEC", "INC", "LSR", "ROL", "ROR"}
ConditionalBranches == {"BPL", "BMI", "BEQ", "BNE", "BCS", "BCC", "BVS", "BVC"}

\* access_type(operation)
AccessType(operation) ==
    CASE operation \in AccumulatorOps \cup
                       {"BIT", "CPX", "CPY", "LDX", "LDY", "TST"} -> "Read"
      [] operation \in ShiftOps \cup {"COM", "RRF"} \cup
                       SeqSet(SEBOps) \cup SeqSet(CLBOps) -> "ReadModifyWrite"
      [] operation \in {"LDM", "STA", "STX", "STY"} -> "Write"
      [] OTHER -> "None"

\* PerformerFor with no substitution for Invalid: the decoded pair is bound
\* as it is.
MutPerformerFor(opcode) ==
    I(Decode(opcode).operation, Decode(opcode).addressing_mode)

\* Executor::Executor: the performer bound to each opcode.
PerformerFor(opcode) ==
    LET instruction == Decode(opcode)
    IN  IF instruction.operation = "Invalid"
        THEN I("NOP", instruction.addressing_mode)
        ELSE I(instruction.operation, instruction.addressing_mode)

---------------------------------------------------------------------------
(* Cycle cost accountant.                                                  *)

\* SubtractDuration charging nothing.
MutSubtractDuration(st, duration) == st

\* CachingExecutor::subtract_duration
SubtractDuration(st, duration) ==
    [st EXCEPT !.remaining_duration_ = @ - duration]

\* CachingExecutor::set_program_counter
SetProgramCounter(st, address) ==
    [st EXCEPT !.program_counter_ = address]

\* TLengths with the surcharge of index mode lost.
MutTLengths(st, operation) == 0

\* t_lengths[index_mode_]
TLengths(st, operation) ==
    IF st.index_mode_
    THEN (IF operation = "LDA" THEN 2
          ELSE IF operation = "CMP" THEN 1 ELSE 3)
    ELSE 0

\* The duration perform<operation, addressing_mode> posts before it acts;
\* -1 stands for the combinations that end in assert(false).
Cost(st, operation, addressing_mode) ==
    CASE operation \in AccumulatorOps ->
            LET t_length == TLengths(st, operation)
            IN  CASE addressing_mode = "XIndirect" -> 6 + t_length
                  [] addressing_mode = "ZeroPage" -> 3 + t_length
                  [] addressing_mode = "Immediate" -> 2 + t_length
                  [] addressing_mode = "Absolute" -> 4 + t_length
                  [] addressing_mode = "IndirectY" -> 6 + t_length
                  [] addressing_mode = "ZeroPageX" -> 4 + t_length
                  [] addressing_mode = "AbsoluteY" -> 5 + t_length
                  [] addressing_mode = "AbsoluteX" -> 5 + t_length
                  [] OTHER -> -1
      [] operation \in ShiftOps ->
            CASE addressing_mode = "ZeroPage" -> 5
              [] addressing_mode = "Accumulator" -> 2
              [] addressing_mode = "Absolute" -> 6
              [] addressing_mode = "ZeroPageX" -> 6
              [] addressing_mode = "AbsoluteX" -> 7
              [] OTHER -> -1
      [] operation \in SeqSet(BBCOps) \cup SeqSet(BBSOps) ->
            CASE addressing_mode = "AccumulatorRelative" -> 4
              [] addressing_mode = "ZeroPageRelative" -> 5
              [] OTHER -> -1
      [] operation \in ConditionalBranches \cup {"INX", "INY"} -> 2
      [] operation \in {"CPX", "CPY", "BIT", "LDX", "LDY"} ->
            CASE addressing_mode = "Immediate" -> 2
              [] addressing_mode = "ZeroPage" -> 3
              [] addressing_mode = "Absolute" -> 4
              [] addressing_mode = "ZeroPageX" -> 4
              [] addressing_mode = "ZeroPageY" -> 4
              [] addressing_mode = "AbsoluteX" -> 5
              [] addressing_mode = "AbsoluteY" -> 5
              [] OTHER -> -1
      [] operation = "BRA" -> 4
      [] operation = "BRK" -> 7
      [] operation \in SeqSet(CLBOps) \cup SeqSet(SEBOps) ->
            CASE addressing_mode = "Accumulator" -> 2
              [] addressing_mode = "ZeroPage" -> 5
              [] OTHER -> -1
      [] operation \in {"CLC", "CLD", "CLT", "CLV", "CLI", "DEX", "DEY", "FST",
                        "NOP", "SEC", "SED", "SEI", "SET", "SLW", "STP", "TAX",
                        "TAY", "TSX", "TXA", "TXS", "TYA"} -> 2
      [] operation = "COM" -> 5
      [] operation = "JMP" ->
            CASE addressing_mode = "Absolute" -> 3
              [] addressing_mode = "AbsoluteIndirect" -> 5
              [] addressing_mode = "ZeroPageIndirect" -> 4
              [] OTHER -> -1
      [] operation = "JSR" ->
            CASE addressing_mode = "ZeroPageIndirect" -> 7
              [] addressing_mode = "Absolute" -> 6
              [] addressing_mode = "SpecialPage" -> 5
              [] OTHER -> -1
      [] operation = "LDM" -> 4
      [] operation \in {"PHA", "PHP", "TST"} -> 3
      [] operation \in {"PLA", "PLP"} -> 4
      [] operation = "RRF" -> 8
      [] operation = "RTI" -> 6
      [] operation = "RTS" -> 6
      [] operation \in {"STA", "STX", "STY"} ->
            CASE addressing_mode = "XIndirect" -> 7
              [] addressing_mode = "ZeroPage" -> 4
              [] addressing_mode = "Absolute" -> 5
              [] addressing_mode = "IndirectY" -> 7
              [] addressing_mode = "ZeroPageX" -> 5
              [] addressing_mode = "ZeroPageY" -> 5
              [] addressing_mode = "AbsoluteY" -> 6
              [] addressing_mode = "AbsoluteX" -> 6
              [] OTHER -> -1
      [] OTHER -> -1

---------------------------------------------------------------------------
(* Operation executor: perform<operation>(uint8_t *operand).               *)

\* What a performer leaves: the state, and the byte *operand now holds.
R(st, operand) == [st |-> st, operand |-> operand]

\* set_nz setting the negative store only.
MutSetNZ(st, value) ==
    [st EXCEPT !.negative_result_ = value]

\* set_nz
SetNZ(st, value) ==
    [st EXCEPT !.negative_result_ = value, !.zero_result_ = value]

\* PerformInterrupt pushing the return address low byte first.
MutPerformInterrupt(st, is_brk) ==
    LET pc == U16(st.program_counter_ + 1)
        st1 == Push([st EXCEPT !.program_counter_ = pc], BitAnd(pc, 255))
        st2 == Push(st1, U8(pc \div 256))
        st3 == Push(st2, BitOr(Flags(st2), IF is_brk THEN BreakMarker ELSE 0))
    IN  SetProgramCounter(st3,
            BitOr(Mem(st3, InterruptVector), Mem(st3, InterruptVector + 1) * 256))

\* Executor::perform_interrupt
PerformInterrupt(st, is_brk) ==
    LET pc == U16(st.program_counter_ + 1)
        st1 == Push([st EXCEPT !.program_counter_ = pc], U8(pc \div 256))
        st2 == Push(st1, BitAnd(pc, 255))
        st3 == Push(st2, BitOr(Flags(st2), IF is_brk THEN BreakMarker ELSE 0))
    IN  SetProgramCounter(st3,
            BitOr(Mem(st3, InterruptVector), Mem(st3, InterruptVector + 1) * 256))

\* IndexStore with the index-mode test lost: the result always goes to the
\* accumulator.
MutIndexStore(st, result) ==
    [SetNZ(st, result) EXCEPT !.a_ = result]

\* The index macro: op applied to memory[x] when index mode is set, to the
\* accumulator otherwise; result is op's result byte.
IndexStore(st, result) ==
    IF st.index_mode_
    THEN Write(SetNZ(st, result), st.x_, result)
    ELSE [SetNZ(st, result) EXCEPT !.a_ = result]

\* IndexSource with the index-mode test lost: the accumulator always.
MutIndexSource(st) == st.a_

\* The byte the index macro works on.
IndexSource(st) == IF st.index_mode_ THEN Read(st, st.x_) ELSE st.a_

\* OpCmp with the carry taken from bit 8 of the difference itself: set on
\* a borrow, clear without one.
MutOpCmp(st, value, operand) ==
    LET temp16 == U16(value - operand)
    IN  [SetNZ(st, U8(temp16)) EXCEPT !.carry_flag_ = Bit(temp16, 8)]

\* op_cmp
OpCmp(st, value, operand) ==
    LET temp16 == U16(value - operand)
    IN  [SetNZ(st, U8(temp16)) EXCEPT !.carry_flag_ = 1 - Bit(temp16, 8)]

\* UnsignedAbove taking the difference as signed: a lane that underflowed
\* is not seen.
MutUnsignedAbove(result, mask) == result > mask

\* The comparison result > mask of an unsigned int that has wrapped below 0.
UnsignedAbove(result, mask) == result < 0 \/ result > mask

\* ADC with decimal mode set: the flags it sets (the nibble macro, twice).
DecimalADC(st, a, operand) ==
    LET sum1 == st.carry_flag_ + BitAnd(a, 15) + BitAnd(operand, 15)
        partials1 == BitAnd(sum1, 15)
        result1 == IF sum1 >= 10 THEN BitAnd(sum1 + 6, 15) + 16 ELSE sum1
        sum2 == result1 + BitAnd(a, 240) + BitAnd(operand, 240)
        partials == partials1 + BitAnd(sum2, 240)
        result == IF sum2 >= 160 THEN BitAnd(sum2 + 96, 255) + 256 ELSE sum2
    IN  [SetNZ(st, U8(result))
            EXCEPT !.overflow_result_ =
                        BitAnd(BitXor(U8(partials), a), BitXor(U8(partials), operand)),
                   !.carry_flag_ = Bit(result, 8)]

\* SBC with decimal mode set: the flags it sets (the nibble macro, twice).
DecimalSBC(st, a, operand) ==
    LET borrow0 == BitXor(st.carry_flag_, 1)
        decimal_result == U16(a - operand - borrow0)
        diff1 == BitAnd(a, 15) - BitAnd(operand, 15) - borrow0
        adj1 == IF UnsignedAbove(diff1, 15) THEN diff1 - 6 ELSE diff1
        borrow1 == IF UnsignedAbove(adj1, 15) THEN 16 ELSE 0
        result1 == adj1 % 16
        diff2 == result1 + BitAnd(a, 240) - BitAnd(operand, 240) - borrow1
        adj2 == IF UnsignedAbove(diff2, 240) THEN diff2 - 96 ELSE diff2
        borrow2 == IF UnsignedAbove(adj2, 240) THEN 256 ELSE 0
        result == adj2 % 256
    IN  [SetNZ(st, U8(result))
            EXCEPT !.overflow_result_ =
                        BitAnd(BitXor(U8(decimal_result), a),
                               BitXor(255 - U8(decimal_result), operand)),
                   !.carry_flag_ = BitXor(Bit(borrow2, 8), 1)]

\* ADC and SBC with decimal mode clear: the flags they set.
BinaryADC(st, a, operand) ==
    LET result == a + operand + st.carry_flag_
    IN  [SetNZ(st, U8(result))
            EXCEPT !.overflow_result_ =
                        BitAnd(BitXor(U8(result), a), BitXor(U8(result), operand)),
                   !.carry_flag_ = Bit(result, 8)]

BinarySBC(st, a, operand) ==
    LET result == a + (-operand - 1) + st.carry_flag_
    IN  [SetNZ(st, U8(result))
            EXCEPT !.overflow_result_ =
                        BitAnd(BitXor(U8(result), a), BitXor(U8(result), 255 - operand)),
                   !.carry_flag_ = Bit(result, 8)]

\* case Operation::SBC / Operation::ADC
AddSubtract(st, operation, operand) ==
    LET a == IndexSource(st)
        flagged ==
            IF st.decimal_mode_
            THEN (IF operation = "ADC" THEN DecimalADC(st, a, operand)
                                       ELSE DecimalSBC(st, a, operand))
            ELSE (IF operation = "ADC" THEN BinaryADC(st, a, operand)
                                       ELSE BinarySBC(st, a, operand))
    IN  IF flagged.index_mode_
        THEN Write(flagged, flagged.x_, a)
        ELSE [flagged EXCEPT !.a_ = a]

\* STP with the latch left as it was.
MutSTP(st) == st

\* case Operation::STP: set_is_stopped(true)
STP(st) == [st EXCEPT !.is_stopped_ = TRUE]

\* Executor::perform<operation>(uint8_t *operand)
PerformOp(st, operation, operand) ==
    CASE operation = "LDA" ->
            IF st.index_mode_
            THEN R(SetNZ(Write(st, st.x_, operand), operand), operand)
            ELSE R([SetNZ(st, operand) EXCEPT !.a_ = operand], operand)
      [] operation = "LDX" -> R([SetNZ(st, operand) EXCEPT !.x_ = operand], operand)
      [] operation = "LDY" -> R([SetNZ(st, operand) EXCEPT !.y_ = operand], operand)
      [] operation = "STA" -> R(st, st.a_)
      [] operation = "STX" -> R(st, st.x_)
      [] operation = "STY" -> R(st, st.y_)
      [] operation = "TXA" -> R([SetNZ(st, st.x_) EXCEPT !.a_ = st.x_], operand)
      [] operation = "TYA" -> R([SetNZ(st, st.y_) EXCEPT !.a_ = st.y_], operand)
      [] operation = "TXS" -> R([st EXCEPT !.s_ = st.x_], operand)
      [] operation = "TAX" -> R([SetNZ(st, st.a_) EXCEPT !.x_ = st.a_], operand)
      [] operation = "TAY" -> R([SetNZ(st, st.a_) EXCEPT !.y_ = st.a_], operand)
      [] operation = "TSX" -> R([SetNZ(st, st.s_) EXCEPT !.x_ = st.s_], operand)
      [] operation \in SeqSet(SEBOps) ->
            R(st, BitOr(operand, 2 ^ IndexIn(SEBOps, operation)))
      [] operation \in SeqSet(CLBOps) ->
            R(st, BitAnd(operand, 255 - 2 ^ IndexIn(CLBOps, operation)))
      [] operation = "CLI" -> R([st EXCEPT !.interrupt_disable_ = 0], operand)
      [] operation = "SEI" -> R([st EXCEPT !.interrupt_disable_ = 4], operand)
      [] operation = "CLT" -> R([st EXCEPT !.index_mode_ = FALSE], operand)
      [] operation = "SET" -> R([st EXCEPT !.index_mode_ = TRUE], operand)
      [] operation = "CLD" -> R([st EXCEPT !.decimal_mode_ = FALSE], operand)
      [] operation = "SED" -> R([st EXCEPT !.decimal_mode_ = TRUE], operand)
      [] operation = "CLC" -> R([st EXCEPT !.carry_flag_ = 0], operand)
      [] operation = "SEC" -> R([st EXCEPT !.carry_flag_ = 1], operand)
      [] operation = "CLV" -> R([st EXCEPT !.overflow_result_ = 0], operand)
      [] operation = "DEX" ->
            R([SetNZ(st, U8(st.x_ - 1)) EXCEPT !.x_ = U8(st.x_ - 1)], operand)
      [] operation = "INX" ->
            R([SetNZ(st, U8(st.x_ + 1)) EXCEPT !.x_ = U8(st.x_ + 1)], operand)
      [] operation = "DEY" ->
            R([SetNZ(st, U8(st.y_ - 1)) EXCEPT !.y_ = U8(st.y_ - 1)], operand)
      [] operation = "INY" ->
            R([SetNZ(st, U8(st.y_ + 1)) EXCEPT !.y_ = U8(st.y_ + 1)], operand)
      [] operation = "DEC" -> R(SetNZ(st, U8(operand - 1)), U8(operand - 1))
      [] operation = "INC" -> R(SetNZ(st, U8(operand + 1)), U8(operand + 1))
      [] operation = "RTS" ->
            LET low == Pull(st)
                high == Pull(low.st)
                target == BitOr(low.value, high.value * 256)
                jumped == SetProgramCounter(high.st, U16(target + 1))
            IN  R([jumped EXCEPT !.program_counter_ = U16(@ - 1)], operand)
      [] operation = "RTI" ->
            LET status == Pull(st)
                low == Pull(SetFlags(status.st, status.value))
                high == Pull(low.st)
                target == BitOr(low.value, high.value * 256)
                jumped == SetProgramCounter(high.st, target)
            IN  R([jumped EXCEPT !.program_counter_ = U16(@ - 1)], operand)
      [] operation = "BRK" ->
            R([PerformInterrupt(st, TRUE) EXCEPT !.program_counter_ = U16(@ - 1)],
              operand)
      [] operation = "STP" -> R(STP(st), operand)
      [] operation = "COM" -> R(SetNZ(st, BitXor(operand, 255)), BitXor(operand, 255))
      [] operation \in {"FST", "SLW", "NOP"} -> R(st, operand)
      [] operation = "PHA" -> R(Push(st, st.a_), operand)
      [] operation = "PHP" -> R(Push(st, Flags(st)), operand)
      [] operation = "PLA" ->
            LET pulled == Pull(st)
            IN  R([SetNZ(pulled.st, pulled.value) EXCEPT !.a_ = pulled.value], operand)
      [] operation = "PLP" ->
            LET pulled == Pull(st)
            IN  R(SetFlags(pulled.st, pulled.value), operand)
      [] operation = "ASL" ->
            R([SetNZ(st, U8(operand * 2)) EXCEPT !.carry_flag_ = operand \div 128],
              U8(operand * 2))
      [] operation = "LSR" ->
            R([SetNZ(st, operand \div 2) EXCEPT !.carry_flag_ = operand % 2],
              operand \div 2)
      [] operation = "ROL" ->
            LET temp8 == U8(BitOr(operand * 2, st.carry_flag_))
            IN  R([SetNZ(st, temp8) EXCEPT !.carry_flag_ = operand \div 128], temp8)
      [] operation = "ROR" ->
            LET temp8 == U8(BitOr(operand \div 2, st.carry_flag_ * 128))
            IN  R([SetNZ(st, temp8) EXCEPT !.carry_flag_ = operand % 2], temp8)
      [] operation = "RRF" ->
            R(st, U8(BitOr(operand \div 16, operand * 16)))
      [] operation = "BIT" ->
            R([st EXCEPT !.zero_result_ = BitAnd(operand, st.a_),
                         !.negative_result_ = operand,
                         !.overflow_result_ = U8(operand * 2)], operand)
      [] operation = "TST" -> R(SetNZ(st, operand), operand)
      [] operation = "ORA" -> R(IndexStore(st, BitOr(IndexSource(st), operand)), operand)
      [] operation = "AND" -> R(IndexStore(st, BitAnd(IndexSource(st), operand)), operand)
      [] operation = "EOR" -> R(IndexStore(st, BitXor(IndexSource(st), operand)), operand)
      [] operation = "CMP" -> R(OpCmp(st, IndexSource(st), operand), operand)
      [] operation = "CPX" -> R(OpCmp(st, st.x_, operand), operand)
      [] operation = "CPY" -> R(OpCmp(st, st.y_, operand), operand)
      [] operation \in {"ADC", "SBC"} -> R(AddSubtract(st, operation, operand), operand)
      [] OTHER -> R(st, operand)

---------------------------------------------------------------------------
(* Addressing-mode resolver:                                               *)
(* perform<operation, addressing_mode>().                                  *)

\* memory_[index] with no mask applied: a read outside the array is
\* undefined behaviour, and yields whatever byte wild stands for.
MemoryAt(st, index, wild) ==
    IF index \in 0 .. (MemorySize - 1) THEN Mem(st, index) ELSE wild

\* next8() and next16(), and the byte after next8()
Next8(st) == Mem(st, BitAnd(st.program_counter_ + 1, AddressMask))
Second8(st) == Mem(st, BitAnd(st.program_counter_ + 2, AddressMask))
Next16(st) == BitOr(Next8(st), Second8(st) * 256)

\* Whether a conditional branch is taken (the Bcc macro's conditions).
BranchTaken(st, operation) ==
    CASE operation = "BPL" -> BitAnd(st.negative_result_, 128) = 0
      [] operation = "BMI" -> BitAnd(st.negative_result_, 128) # 0
      [] operation = "BEQ" -> st.zero_result_ = 0
      [] operation = "BNE" -> st.zero_result_ # 0
      [] operation = "BCS" -> st.carry_flag_ # 0
      [] operation = "BCC" -> st.carry_flag_ = 0
      [] operation = "BVS" -> BitAnd(st.overflow_result_, 128) # 0
      [] operation = "BVC" -> BitAnd(st.overflow_result_, 128) = 0

\* Address with the 8-bit masks of the zero-page modes lost: the indexed
\* sum and the successor of a pointer's address carry into the next page.
MutAddress(st, addressing_mode, wild) ==
    CASE addressing_mode = "Relative" ->
            st.program_counter_ + 1 + Size(addressing_mode) + S8(Next8(st))
      [] addressing_mode = "SpecialPage" -> BitOr(7936, Next8(st))
      [] addressing_mode = "Absolute" -> Next16(st)
      [] addressing_mode = "AbsoluteX" -> Next16(st) + st.x_
      [] addressing_mode = "AbsoluteY" -> Next16(st) + st.y_
      [] addressing_mode = "ZeroPage" -> Next8(st)
      [] addressing_mode = "ZeroPageX" -> Next8(st) + st.x_
      [] addressing_mode = "ZeroPageY" -> Next8(st) + st.y_
      [] addressing_mode = "ZeroPageIndirect" ->
            LET pointer == Next8(st)
            IN  BitOr(Mem(st, pointer), Mem(st, pointer + 1) * 256)
      [] addressing_mode = "XIndirect" ->
            LET pointer == BitAnd(Next8(st) + st.x_, 255)
            IN  BitOr(Mem(st, pointer), Mem(st, pointer + 1) * 256)
      [] addressing_mode = "IndirectY" ->
            BitOr(Mem(st, Next8(st)), Mem(st, Next8(st) + 1) * 256) + st.y_
      [] addressing_mode = "AbsoluteIndirect" ->
            LET pointer == Next16(st)
            IN  BitOr(MemoryAt(st, pointer, wild),
                      Mem(st, BitAnd(pointer + 1, AddressMask)) * 256)

\* The address an addressing mode with a memory access (or a jump) computes:
\* an int, not yet cut to 16 bits.
Address(st, addressing_mode, wild) ==
    CASE addressing_mode = "Relative" ->
            st.program_counter_ + 1 + Size(addressing_mode) + S8(Next8(st))
      [] addressing_mode = "SpecialPage" -> BitOr(7936, Next8(st))
      [] addressing_mode = "Absolute" -> Next16(st)
      [] addressing_mode = "AbsoluteX" -> Next16(st) + st.x_
      [] addressing_mode = "AbsoluteY" -> Next16(st) + st.y_
      [] addressing_mode = "ZeroPage" -> Next8(st)
      [] addressing_mode = "ZeroPageX" -> BitAnd(Next8(st) + st.x_, 255)
      [] addressing_mode = "ZeroPageY" -> BitAnd(Next8(st) + st.y_, 255)
      [] addressing_mode = "ZeroPageIndirect" ->
            LET pointer == Next8(st)
            IN  BitOr(Mem(st, pointer), Mem(st, BitAnd(pointer + 1, 255)) * 256)
      [] addressing_mode = "XIndirect" ->
            LET pointer == BitAnd(Next8(st) + st.x_, 255)
            IN  BitOr(Mem(st, pointer), Mem(st, BitAnd(pointer + 1, 255)) * 256)
      [] addressing_mode = "IndirectY" ->
            BitOr(Mem(st, Next8(st)),
                  Mem(st, BitAnd(Next8(st) + 1, 255)) * 256) + st.y_
      [] addressing_mode = "AbsoluteIndirect" ->
            LET pointer == Next16(st)
            IN  BitOr(MemoryAt(st, pointer, wild),
                      Mem(st, BitAnd(pointer + 1, AddressMask)) * 256)

\* The bit-test-and-branch performers (AccumulatorRelative, ZeroPageRelative).
BitBranch(st, operation, addressing_mode) ==
    LET value == IF addressing_mode = "AccumulatorRelative"
                 THEN st.a_ ELSE Read(st, Next8(st))
        displacement == IF addressing_mode = "AccumulatorRelative"
                        THEN Next8(st) ELSE Second8(st)
        address == st.program_counter_ + 1 + Size(addressing_mode) + S8(displacement)
        advanced == [st EXCEPT !.program_counter_ =
                                    U16(@ + 1 + Size(addressing_mode))]
        branched == SubtractDuration(SetProgramCounter(advanced, U16(address)), 2)
    IN  CASE operation \in SeqSet(BBSOps) ->
                \* operation >= BBS0 && operation < BBS7
                IF /\ IndexIn(BBSOps, operation) < 7
                   /\ Bit(value, IndexIn(BBSOps, operation)) = 1
                THEN branched ELSE advanced
          [] operation \in SeqSet(BBCOps) ->
                \* operation >= BBC0 && operation < BBS7: every BBC
                IF Bit(value, IndexIn(BBCOps, operation)) = 1
                THEN branched ELSE advanced
          [] OTHER -> advanced

\* AfterAddress with the penalty of a taken conditional branch lost.
MutAfterAddress(st, operation, address) ==
    CASE operation \in {"BRA", "JMP"} -> SetProgramCounter(st, U16(address))
      [] operation = "JSR" ->
            LET return_address == st.program_counter_ - 1
                st1 == Push(st, U8(return_address \div 256))
                st2 == Push(st1, U8(return_address))
            IN  SetProgramCounter(st2, U16(address))
      [] operation \in ConditionalBranches ->
            IF BranchTaken(st, operation)
            THEN SetProgramCounter(st, U16(address))
            ELSE st
      [] AccessType(operation) = "Read" ->
            PerformOp(st, operation, Read(st, U16(address))).st
      [] AccessType(operation) = "ReadModifyWrite" ->
            LET done == PerformOp(st, operation, Read(st, U16(address)))
            IN  Write(done.st, U16(address), done.operand)
      [] OTHER ->
            LET done == PerformOp(st, operation, 255)
            IN  Write(done.st, U16(address), done.operand)

\* The tail of perform<operation, addressing_mode>(): what follows the
\* computation of address and the advance of the program counter.
AfterAddress(st, operation, address) ==
    CASE operation \in {"BRA", "JMP"} -> SetProgramCounter(st, U16(address))
      [] operation = "JSR" ->
            LET return_address == st.program_counter_ - 1
                st1 == Push(st, U8(return_address \div 256))
                st2 == Push(st1, U8(return_address))
            IN  SetProgramCounter(st2, U16(address))
      [] operation \in ConditionalBranches ->
            IF BranchTaken(st, operation)
            THEN SubtractDuration(SetProgramCounter(st, U16(address)), 2)
            ELSE st
      [] AccessType(operation) = "Read" ->
            PerformOp(st, operation, Read(st, U16(address))).st
      [] AccessType(operation) = "ReadModifyWrite" ->
            LET done == PerformOp(st, operation, Read(st, U16(address)))
            IN  Write(done.st, U16(address), done.operand)
      [] OTHER ->
            LET done == PerformOp(st, operation, 255)
            IN  Write(done.st, U16(address), done.operand)

\* perform<operation>(&next8()): the operand is the byte of memory_ itself,
\* so what the operation leaves in it stays there.
ImmediateKept(st, performed) ==
    CHOOSE kept \in
        {IF done.operand = Next8(st) THEN done.st
         ELSE MemSet(done.st, BitAnd(st.program_counter_ + 1, AddressMask),
                     done.operand) : done \in {performed}} : TRUE

\* Executor::perform<operation, addressing_mode>()
Perform(st, operation, addressing_mode, wild) ==
    LET charged == SubtractDuration(st, Cost(st, operation, addressing_mode))
    IN  CASE addressing_mode = "Implied" ->
                [PerformOp(charged, operation, 0).st
                    EXCEPT !.program_counter_ = U16(@ + 1)]
          [] addressing_mode = "Accumulator" ->
                LET done == PerformOp(charged, operation, charged.a_)
                IN  [done.st EXCEPT !.a_ = done.operand,
                                    !.program_counter_ = U16(@ + 1)]
          [] addressing_mode = "Immediate" ->
                [ImmediateKept(charged, PerformOp(charged, operation, Next8(charged)))
                    EXCEPT !.program_counter_ = U16(@ + 2)]
          [] addressing_mode = "ImmediateZeroPage" ->
                [Write(charged, Second8(charged), Next8(charged))
                    EXCEPT !.program_counter_ = U16(@ + 1 + Size(addressing_mode))]
          [] addressing_mode \in {"AccumulatorRelative", "ZeroPageRelative"} ->
                BitBranch(charged, operation, addressing_mode)
          [] OTHER ->
                AfterAddress(
                    [charged EXCEPT !.program_counter_ =
                                        U16(@ + 1 + Size(addressing_mode))],
                    operation,
                    Address(charged, addressing_mode, wild))

---------------------------------------------------------------------------
(* The execution loop and the operations of the engine, as actions.        *)

\* The opcode the loop fetches: the byte at the program counter, masked.
Fetch(st) == Mem(st, BitAnd(st.program_counter_, AddressMask))

\* One iteration of the loop: the performer bound to the fetched opcode.
Execute(st, wild) ==
    LET performer == PerformerFor(Fetch(st))
    IN  Perform(st, performer.operation, performer.addressing_mode, wild)

\* The bytes an unmasked read of this iteration may yield.
WildBytes(st) ==
    IF /\ PerformerFor(Fetch(st)).addressing_mode = "AbsoluteIndirect"
       /\ Next16(st) >= MemorySize
    THEN Byte ELSE {0}

\* The largest number of calls made on an engine.
MaxCalls == 2

\* The largest budget the loop is entered or left waiting with.
MaxBudget == 3

\* The loop's body, once: an instruction is performed.
Step ==
    /\ ~is_stopped_
    /\ remaining_duration_ > 0
    /\ \E wild \in WildBytes(State) : Becomes(Execute(State, wild))
    /\ \E performer \in {PerformerFor(Fetch(State))} :
            last' = [call |-> "perform",
                     n |-> last.n + 1,
                     opcode |-> Fetch(State),
                     operation |-> performer.operation,
                     addressing_mode |-> performer.addressing_mode,
                     before |-> State]
    /\ UNCHANGED cycles_

\* Reset releasing the stop latch and emptying the budget as well.
MutReset(st) ==
    SetProgramCounter([st EXCEPT !.is_stopped_ = FALSE, !.remaining_duration_ = 0],
                      BitOr(Mem(st, ResetVector), Mem(st, ResetVector + 1) * 256))

\* Executor::reset
Reset(st) ==
    SetProgramCounter(st, BitOr(Mem(st, ResetVector), Mem(st, ResetVector + 1) * 256))

\* SetRom placing the image at the start of the ROM region.
MutSetRomLeft(st, rom) ==
    LET length == IF Len(rom) < RomSize THEN Len(rom) ELSE RomSize
        base == MemorySize - RomSize
        copied == [i \in base .. (base + length - 1) |-> rom[i - base + 1]]
    IN  SetProgramCounter([st EXCEPT !.memory_ = copied @@ @],
            BitOr(Mem([st EXCEPT !.memory_ = copied @@ @], ResetVector),
                  Mem([st EXCEPT !.memory_ = copied @@ @], ResetVector + 1) * 256))

\* SetRom keeping the end of an image that is too long.
MutSetRomTail(st, rom) ==
    LET length == IF Len(rom) < RomSize THEN Len(rom) ELSE RomSize
        copied == [i \in (MemorySize - length) .. (MemorySize - 1) |->
                        rom[Len(rom) - (MemorySize - 1 - i)]]
    IN  SetProgramCounter([st EXCEPT !.memory_ = copied @@ @],
            BitOr(Mem([st EXCEPT !.memory_ = copied @@ @], ResetVector),
                  Mem([st EXCEPT !.memory_ = copied @@ @], ResetVector + 1) * 256))

\* Executor::set_rom
SetRom(st, rom) ==
    LET length == IF Len(rom) < RomSize THEN Len(rom) ELSE RomSize
        copied == [i \in (MemorySize - length) .. (MemorySize - 1) |->
                        rom[i - (MemorySize - length) + 1]]
    IN  Reset([st EXCEPT !.memory_ = copied @@ @])

\* RunLoop starting an instruction with the budget at 0 as well.
RECURSIVE MutRunLoop(_, _)
MutRunLoop(st, wild) ==
    IF st.remaining_duration_ >= 0 /\ ~st.is_stopped_
    THEN CHOOSE left \in {MutRunLoop(next, wild) : next \in {Execute(st, wild)}} : TRUE
    ELSE st

\* CachingExecutor::run_for: whole instructions are performed while the
\* budget is positive and the engine is not stopped.
RECURSIVE RunLoop(_, _)
RunLoop(st, wild) ==
    IF st.remaining_duration_ > 0 /\ ~st.is_stopped_
    THEN CHOOSE left \in {RunLoop(next, wild) : next \in {Execute(st, wild)}} : TRUE
    ELSE st

\* The bytes the unmasked reads of a run may yield: one stands for all when
\* the run does not depend on the byte.
WildRun(st) ==
    IF RunLoop(st, 0) = RunLoop(st, 1) THEN {0} ELSE Byte

\* The largest number of ticks one run_for call delivers.
MaxTicks == 9

\* The observer counts the engine units delivered since the last reset up to
\* this number.
MaxCounted == 4

\* The engine units delivered since the last reset, as the observer has them.
Delivered(seen) == IF seen.call = "run_for" THEN seen.delivered ELSE 0

\* The ticks the adapter has been given over the same calls, those it still
\* held when they began included; counted as far as the units are.
Ticks == IF last.call = "run_for" THEN last.ticks ELSE cycles_

\* Accumulate dropping the ticks retained from earlier calls.
MutAccumulate(pending, cycles) == cycles

\* cycles_ += cycles
Accumulate(pending, cycles) == pending + cycles

\* Cycles::divide: the quotient is returned, the remainder retained.
Divide(length, divisor) ==
    [quotient |-> length \div divisor, remainder |-> length % divisor]

\* Executor::run_for: the incoming clock is divided by four, the remainder
\* kept, and the loop run on the quotient.
RunFor(cycles) ==
    /\ remaining_duration_ <= MaxBudget
    /\ \E divided \in {Divide(Accumulate(cycles_, cycles), ClockDivider)} :
        /\ \E started \in {[State EXCEPT !.remaining_duration_ = @ + divided.quotient]} :
                \E wild \in WildRun(started) : Becomes(RunLoop(started, wild))
        /\ last' = [call |-> "run_for", n |-> last.n, cycles |-> cycles,
                    units |-> divided.quotient,
                    delivered |-> IF Delivered(last) + divided.quotient < MaxCounted
                                  THEN Delivered(last) + divided.quotient
                                  ELSE MaxCounted,
                    ticks |-> IF Ticks + cycles < ClockDivider * MaxCounted
                              THEN Ticks + cycles
                              ELSE ClockDivider * MaxCounted,
                    before |-> State]
        /\ cycles_' = divided.remainder

\* Executor::set_rom, called from outside.
CallSetRom(rom) ==
    /\ last.n < MaxCalls
    /\ Becomes(SetRom(State, rom))
    /\ last' = [call |-> "set_rom", n |-> last.n + 1, rom |-> rom, before |-> State]
    /\ UNCHANGED cycles_

\* Executor::reset, called from outside.
CallReset ==
    /\ last.n < MaxCalls
    /\ Becomes(Reset(State))
    /\ last' = [call |-> "reset", n |-> last.n + 1, before |-> State]
    /\ UNCHANGED cycles_

\* Executor::set_flags, called on its own.
CallSetFlags(flags) ==
    /\ last.n < MaxCalls
    /\ Becomes(SetFlags(State, flags))
    /\ last' = [call |-> "set_flags", n |-> last.n + 1, flags |-> flags]
    /\ UNCHANGED cycles_

\* Executor::push, called on its own.
CallPush(value) ==
    /\ last.n < MaxCalls
    /\ Becomes(Push(State, value))
    /\ last' = [call |-> "push", n |-> last.n + 1, value |-> value, s_ |-> s_]
    /\ UNCHANGED cycles_

\* Executor::pull, called on its own; the observer keeps what it returned
\* and the call before it.
CallPull ==
    /\ last.n < MaxCalls
    /\ Becomes(Pull(State).st)
    /\ last' = [call |-> "pull", n |-> last.n + 1, value |-> Pull(State).value,
                previous |-> IF last.call = "push"
                             THEN [call |-> "push", value |-> last.value, s_ |-> last.s_]
                             ELSE [call |-> last.call]]
    /\ UNCHANGED cycles_

\* Executor::write, called on its own.
CallWrite(address, value) ==
    /\ last.n < MaxCalls
    /\ Becomes(Write(State, address, value))
    /\ last' = [call |-> "write", n |-> last.n + 1, address |-> address,
                value |-> value, before |-> State]
    /\ UNCHANGED cycles_

\* Executor::read, called on its own; the observer keeps what it returned.
CallRead(address) ==
    /\ last.n < MaxCalls
    /\ UNCHANGED <<a_, x_, y_, s_, program_counter_, negative_result_,
                   overflow_result_, zero_result_, index_mode_, decimal_mode_,
                   interrupt_disable_, carry_flag_, memory_, cycles_,
                   remaining_duration_, is_stopped_>>
    /\ last' = [call |-> "read", n |-> last.n + 1, address |-> address,
                value |-> Read(State, address)]

---------------------------------------------------------------------------
(* Initial states.  An engine whose ROM has been loaded and whose program  *)
(* has run for a while may hold any bytes in its writable RAM and in its   *)
(* registers; every byte that was neither written nor loaded is still 0.   *)

RomBase == MemorySize - RomSize

\* The bytes of program, placed from address at on.
Placed(program, at) ==
    [i \in at .. (at + Len(program) - 1) |-> program[i - at + 1]]

\* A memory image: the bytes of loaded where it has them, byte m at RAM
\* address k, and a fixed pattern in the rest of RAM.
Image(loaded, k, m) ==
    [i \in (0 .. (RamTop - 1)) \cup DOMAIN loaded |->
        IF i \in DOMAIN loaded THEN loaded[i]
        ELSE IF i = k THEN m
        ELSE (i * 37 + 11) % 256]

\* The engine holds state st, with no ticks pending and nothing observed.
HoldsState(st) ==
    /\ a_ = st.a_
    /\ x_ = st.x_
    /\ y_ = st.y_
    /\ s_ = st.s_
    /\ program_counter_ = st.program_counter_
    /\ negative_result_ = st.negative_result_
    /\ overflow_result_ = st.overflow_result_
    /\ zero_result_ = st.zero_result_
    /\ index_mode_ = st.index_mode_
    /\ decimal_mode_ = st.decimal_mode_
    /\ interrupt_disable_ = st.interrupt_disable_
    /\ carry_flag_ = st.carry_flag_
    /\ memory_ = st.memory_
    /\ remaining_duration_ = st.remaining_duration_
    /\ is_stopped_ = st.is_stopped_
    /\ cycles_ = 0
    /\ last = [call |-> "none", n |-> 0]

Holds(initial) == \E st \in {initial} : HoldsState(st)

\* A state with the given registers, packed status and memory, about to
\* perform the instruction at pc with the given budget.
Machine(a, x, y, s, pc, flags, memory, budget) ==
    SetFlags([a_ |-> a, x_ |-> x, y_ |-> y, s_ |-> s,
              program_counter_ |-> pc,
              negative_result_ |-> 0, overflow_result_ |-> 0, zero_result_ |-> 0,
              index_mode_ |-> FALSE, decimal_mode_ |-> FALSE,
              interrupt_disable_ |-> 0, carry_flag_ |-> 0,
              memory_ |-> memory,
              remaining_duration_ |-> budget,
              is_stopped_ |-> FALSE], flags)

---------------------------------------------------------------------------
(* SpecAcc: the accumulator-class operations, in every addressing mode,    *)
(* with index mode set and clear.                                          *)

AccOpcodes == {opcode \in Byte : Decode(opcode).operation \in AccumulatorOps}

InitAcc ==
    \E opcode \in AccOpcodes, b1 \in {16, 240}, b2 \in {0, 255},
       a \in {15, 128, 153}, x \in {16, 96, 255},
       flags \in {0, 1, 8, 9, 32, 33, 40, 41} :
        Holds(Machine(a, x, 1, 95, RomBase, flags,
                      Image(Placed(<<opcode, b1, b2>>, RomBase), x, 15), MaxBudget))

SpecAcc == InitAcc /\ [][Step]_vars

\* The addresses at which two states may hold different bytes.
Touched(st1, st2) == DOMAIN st1.memory_ \cup DOMAIN st2.memory_

\* The byte an instruction in the given addressing mode works on.
OperandOf(st, addressing_mode) ==
    IF addressing_mode = "Immediate" THEN Next8(st)
    ELSE Read(st, U16(Address(st, addressing_mode, 0)))

\* An accumulator-class instruction has just been performed with index mode set.
IndexModePerformed ==
    /\ last.call = "perform"
    /\ last.operation \in AccumulatorOps
    /\ last.before.index_mode_

\* C3: with index mode set and X = k, an accumulator-class operation (LDA,
\* ORA, AND, EOR, CMP, ADC, SBC), in any addressing mode, leaves the
\* accumulator as it was and changes no memory byte other than the one at k.
C3_IndexModeFrame ==
    IndexModePerformed =>
        /\ a_ = last.before.a_
        /\ \A i \in Touched(State, last.before) :
                i # last.before.x_ => Mem(State, i) = Mem(last.before, i)

\* C3 happens: an index-mode operation changed the byte at k = X, in RAM.
C3_Witness ==
    /\ IndexModePerformed
    /\ last.before.x_ < RamTop
    /\ Mem(State, last.before.x_) # Mem(last.before, last.before.x_)
    /\ a_ = last.before.a_

\* One bit of m OR v, m AND v, m XOR v.
LogicBit(operation, m, v) ==
    CASE operation = "ORA" -> IF m = 1 \/ v = 1 THEN 1 ELSE 0
      [] operation = "AND" -> IF m = 1 /\ v = 1 THEN 1 ELSE 0
      [] operation = "EOR" -> IF m # v THEN 1 ELSE 0

\* C4: with index mode set, X = k < 0x60 and memory[k] = m, ORA/AND/EOR with
\* operand v leave memory[k] = m OR/AND/XOR v, zero set iff that byte is 0 and
\* negative equal to its bit 7.
C4_IndexLogicResult ==
    (/\ IndexModePerformed
     /\ last.operation \in {"ORA", "AND", "EOR"}
     /\ last.before.x_ < RamTop) =>
        LET k == last.before.x_
            m == Mem(last.before, k)
            v == OperandOf(last.before, last.addressing_mode)
            r == Mem(State, k)
        IN  /\ r \in Byte
            /\ \A n \in 0 .. 7 : Bit(r, n) = LogicBit(last.operation, Bit(m, n), Bit(v, n))
            /\ (Bit(Flags(State), 1) = 1) <=> (r = 0)
            /\ Bit(Flags(State), 7) = Bit(r, 7)

\* C4 happens: index mode set, X = 0x10, memory[0x10] = 0x0F, ORA #0xF0 has
\* left memory[0x10] = 0xFF, zero clear, negative set, the accumulator as it was.
C4_Witness ==
    /\ IndexModePerformed
    /\ last.operation = "ORA"
    /\ last.addressing_mode = "Immediate"
    /\ last.before.x_ = 16
    /\ Mem(last.before, 16) = 15
    /\ Next8(last.before) = 240
    /\ Mem(State, 16) = 255
    /\ Bit(Flags(State), 1) = 0
    /\ Bit(Flags(State), 7) = 1
    /\ a_ = last.before.a_

\* C5: ADC and SBC store their result, the byte N and Z are derived from: in
\* the accumulator with index mode clear, in memory[X] with index mode set
\* and X < 0x60.
C5_ResultStored ==
    (/\ last.call = "perform"
     /\ last.operation \in {"ADC", "SBC"}) =>
        IF last.before.index_mode_
        THEN last.before.x_ < RamTop => Mem(State, last.before.x_) = zero_result_
        ELSE a_ = zero_result_

---------------------------------------------------------------------------
(* SpecFlags: set_flags called with every byte, then flags().              *)

InitFlags ==
    \E flags \in {0, 255} :
        Holds(Machine(0, 0, 0, 95, RomBase, flags, Image(<<>>, 0, 0), 0))

NextFlags == \E flags \in Byte : CallSetFlags(flags)

SpecFlags == InitFlags /\ [][NextFlags]_vars

\* C1: set_flags(b) followed by flags() returns b with bit 0x10 cleared: b
\* itself when that bit is 0 in b.
C1_FlagRoundTrip ==
    last.call = "set_flags" =>
        /\ Flags(State) \in Byte
        /\ \A n \in 0 .. 7 :
                Bit(Flags(State), n) = IF n = 4 THEN 0 ELSE Bit(last.flags, n)
        /\ Bit(last.flags, 4) = 0 => Flags(State) = last.flags

\* C1 happens: a byte with all eight bits set went in, 0xEF came out.
C1_Witness ==
    /\ last.call = "set_flags"
    /\ last.flags = 255
    /\ Flags(State) = 239

---------------------------------------------------------------------------
(* SpecStack: push and pull called on their own, from every stack pointer. *)

InitStack ==
    \E s \in Byte :
        Holds(Machine(0, 0, 0, s, RomBase, 0, Image(<<>>, 0, 0), 0))

NextStack ==
    \/ \E value \in {0, 66, 255} : CallPush(value)
    \/ CallPull

SpecStack == InitStack /\ [][NextStack]_vars

\* A pull has just followed a push.
PulledAfterPush ==
    /\ last.call = "pull"
    /\ last.previous.call = "push"

\* C2 as stated: from every stack pointer s in 0..255, push(v) then pull()
\* returns v and leaves the stack pointer at s.
C2_PushPullAnywhere ==
    PulledAfterPush =>
        /\ last.value = last.previous.value
        /\ s_ = last.previous.s_

\* C2, amended: push(v) then pull() leaves the stack pointer at s for every
\* s in 0..255, and returns v when s addresses writable RAM (s < 0x60).
C2_PushPullInRam ==
    PulledAfterPush =>
        /\ s_ = last.previous.s_
        /\ last.previous.s_ < RamTop => last.value = last.previous.value

\* C2 happens: 0x42 pushed at s = 0x5F and pulled again.
C2_Witness ==
    /\ PulledAfterPush
    /\ last.previous.s_ = 95
    /\ last.previous.value = 66
    /\ last.value = 66
    /\ s_ = 95

---------------------------------------------------------------------------
(* SpecWrite: write called on its own.                                     *)

WriteAddresses ==
    {0, 1, 95, 96, 97, 208, 255, 256, 4095, 4096, 8190, 8191,
     8192, 8193, 8287, 8288, 16384 + 16, 65535 - 8191 + 95, 65535}

InitWrite ==
    \E a \in {0, 129}, s \in {95, 255}, flags \in {0, 239} :
        Holds(Machine(a, 16, 1, s, RomBase, flags,
                      Image(Placed(<<169, 66>>, RomBase), 16, 15), 0))

NextWrite == \E address \in WriteAddresses, value \in {0, 66, 255} : CallWrite(address, value)

SpecWrite == InitWrite /\ [][NextWrite]_vars

\* The state but for its memory image.
Registers(st) == [st EXCEPT !.memory_ = <<>>]

\* C10: write(address, value) stores value at memory[address & 0x1FFF] when
\* that masked address is below 0x60 and stores nothing otherwise; no other
\* memory byte and no register changes.
C10_WriteDispatch ==
    last.call = "write" =>
        LET masked == last.address % MemorySize
        IN  /\ Registers(State) = Registers(last.before)
            /\ \A i \in Touched(State, last.before) \cup {masked} :
                    Mem(State, i) = IF i = masked /\ masked < RamTop
                                    THEN last.value
                                    ELSE Mem(last.before, i)

\* C10 happens: a write above the array's end landed, masked, in RAM and
\* changed the byte there.
C10_Witness ==
    /\ last.call = "write"
    /\ last.address = 8192 + 95
    /\ Mem(State, 95) = last.value
    /\ Mem(last.before, 95) # last.value

---------------------------------------------------------------------------
(* SpecBrk: BRK from several addresses, stack pointers, statuses and       *)
(* interrupt vectors.                                                      *)

InitBrk ==
    \E pc \in {16, RomBase + 255, RomBase + 564, AddressMask},
       s \in {0, 1, 2, 64, 95, 96, 255},
       flags \in {0, 1, 2, 36, 64, 128, 239},
       vector \in {<<0, 16>>, <<52, 18>>, <<255, 255>>} :
        Holds(Machine(129, 16, 1, s, pc, flags,
                      Image(Placed(<<0>>, pc) @@ Placed(vector, InterruptVector), 16, 15),
                      MaxBudget))

SpecBrk == InitBrk /\ [][Step]_vars

\* BRK has just been performed with s, s-1 and s-2 in writable RAM.
BrkPerformed ==
    /\ last.call = "perform"
    /\ last.operation = "BRK"
    /\ last.before.s_ >= 2
    /\ last.before.s_ < RamTop

\* C6: BRK with stack pointer s (s, s-1, s-2 in writable RAM) leaves
\* memory[s] = high byte and memory[s-1] = low byte of the return address
\* (the address the code returns to: the one after the BRK opcode),
\* memory[s-2] = the packed status with bit 0x10 set, the stack pointer at
\* s-3 and the program counter at memory[0x1FF4] | memory[0x1FF5] << 8.
C6_BreakFrame ==
    BrkPerformed =>
        LET s == last.before.s_
            return_address == (last.before.program_counter_ + 1) % 65536
            status == Flags(last.before)
        IN  /\ Mem(State, s) = return_address \div 256
            /\ Mem(State, s - 1) = return_address % 256
            /\ Mem(State, s - 2) = status + (IF Bit(status, 4) = 1 THEN 0 ELSE BreakMarker)
            /\ s_ = (s - 3) % 256
            /\ program_counter_ = Mem(last.before, InterruptVector)
                                    + 256 * Mem(last.before, InterruptVector + 1)

\* C6 happens: a BRK at 0x10FF with s = 0x5F and status 0x24 pushed 0x11,
\* 0x00, 0x34 and went to the vector 0x1234.
C6_Witness ==
    /\ BrkPerformed
    /\ last.before.program_counter_ = RomBase + 255
    /\ last.before.s_ = 95
    /\ Flags(last.before) = 36
    /\ Mem(State, 95) = 17
    /\ Mem(State, 94) = 0
    /\ Mem(State, 93) = 52
    /\ s_ = 92
    /\ program_counter_ = 4660

---------------------------------------------------------------------------
(* SpecBranch: BRA and the eight conditional branches, with every          *)
(* displacement, from both ends of the address space and from inside it.   *)

BranchOpcodes ==
    {opcode \in Byte : Decode(opcode).operation \in ConditionalBranches \cup {"BRA"}}

InitBranch ==
    \E opcode \in BranchOpcodes, displacement \in Byte,
       pc \in {0, 64, RomBase, AddressMask - 1, AddressMask},
       flags \in {0, 195} :
        Holds(Machine(129, 16, 1, 95, pc, flags,
                      Image([i \in {pc, (pc + 1) % MemorySize} |->
                                IF i = pc THEN opcode ELSE displacement], 16, 15),
                      MaxBudget))

SpecBranch == InitBranch /\ [][Step]_vars

\* Whether the branch's condition holds on a packed status byte.
ConditionHolds(operation, status) ==
    CASE operation = "BRA" -> TRUE
      [] operation = "BPL" -> Bit(status, 7) = 0
      [] operation = "BMI" -> Bit(status, 7) = 1
      [] operation = "BVC" -> Bit(status, 6) = 0
      [] operation = "BVS" -> Bit(status, 6) = 1
      [] operation = "BNE" -> Bit(status, 1) = 0
      [] operation = "BEQ" -> Bit(status, 1) = 1
      [] operation = "BCC" -> Bit(status, 0) = 0
      [] operation = "BCS" -> Bit(status, 0) = 1

\* A relative branch has just been performed.
BranchPerformed ==
    /\ last.call = "perform"
    /\ last.operation \in ConditionalBranches \cup {"BRA"}

\* The signed displacement of the instruction just performed.
DisplacementOf(st) ==
    LET b == Next8(st) IN IF b < 128 THEN b ELSE b - 256

\* C7: a relative branch at P (length 2, signed displacement D) that is taken
\* continues at P + 2 + D, and one that is not taken at P + 2, both reduced
\* into the 13-bit address space.
C7_RelativeTarget ==
    BranchPerformed =>
        LET P == last.before.program_counter_
            D == DisplacementOf(last.before)
        IN  program_counter_ % MemorySize =
                IF ConditionHolds(last.operation, Flags(last.before))
                THEN (P + 2 + D) % MemorySize
                ELSE (P + 2) % MemorySize

\* C7 happens: a taken branch at 0x0000 with displacement -128 wrapped below
\* the address space, to 0x1F82.
C7_Witness ==
    /\ BranchPerformed
    /\ last.before.program_counter_ = 0
    /\ DisplacementOf(last.before) = -128
    /\ ConditionHolds(last.operation, Flags(last.before))
    /\ last.operation # "BRA"
    /\ program_counter_ % MemorySize = MemorySize - 126

---------------------------------------------------------------------------
(* SpecInvalid: every opcode the decoder calls Invalid, and NOP.           *)

InvalidOpcodes == {opcode \in Byte : Decode(opcode).operation = "Invalid"}
NopOpcode == CHOOSE opcode \in Byte : Decode(opcode).operation = "NOP"

InitInvalid ==
    \E opcode \in InvalidOpcodes \cup {NopOpcode},
       pc \in {16, RomBase, AddressMask}, a \in {0, 129},
       flags \in {0, 32, 239} :
        Holds(Machine(a, 16, 1, 95, pc, flags,
                      Image(Placed(<<opcode>>, pc), 16, 15), MaxBudget))

SpecInvalid == InitInvalid /\ [][Step]_vars

\* An opcode the decoder calls Invalid has just been performed.
InvalidPerformed ==
    /\ last.call = "perform"
    /\ last.opcode \in InvalidOpcodes

\* C9: every opcode has a bound performer (one whose operation and addressing
\* mode the executor has a case for), and an opcode that decodes to Invalid
\* does what NOP does from the same state: registers, flags and memory as
\* they were, the program counter advanced by 1, 2 subtracted from the budget.
C9_InvalidIsNop ==
    /\ \A opcode \in Byte :
            Cost(State, PerformerFor(opcode).operation,
                        PerformerFor(opcode).addressing_mode) >= 0
    /\ InvalidPerformed =>
            /\ State = Perform(last.before, Decode(NopOpcode).operation,
                               Decode(NopOpcode).addressing_mode, 0)
            /\ State = [last.before EXCEPT
                            !.program_counter_ = (@ + 1) % 65536,
                            !.remaining_duration_ = @ - 2]

\* C9 happens: an Invalid opcode was performed and the engine moved on by one
\* byte.
C9_Witness ==
    /\ InvalidPerformed
    /\ last.opcode = 4
    /\ program_counter_ = RomBase + 1
    /\ remaining_duration_ = MaxBudget - 2

---------------------------------------------------------------------------
(* ROM images.  set_rom places an image right-aligned, so its last two     *)
(* bytes are the reset vector.                                             *)

Low(address) == address % 256
High(address) == address \div 256

\* padding zero bytes
RECURSIVE Zeros(_)
Zeros(padding) == IF padding = 0 THEN <<>> ELSE <<0>> \o Zeros(padding - 1)

\* LDA #v, then JMP to the JMP itself, at the reset target; padding bytes
\* lie between the program and the reset vector.
SteadyRom(v, padding) ==
    LET target == MemorySize - (7 + padding)
    IN  <<169, v, 76, Low(target + 2), High(target + 2)>> \o Zeros(padding)
            \o <<Low(target), High(target)>>

\* SEC, then STP, at the reset target.
StopRom ==
    <<56, 66, Low(MemorySize - 4), High(MemorySize - 4)>>

SteadyRoms == {SteadyRom(v, padding) : v \in {0, 66, 128}, padding \in {0, 9}}

\* The engine as constructed: the registers' initial values are not in the
\* source at hand, so several are allowed; nothing is loaded.
InitEngine ==
    \E a \in {0, 129}, flags \in {0, 4, 36} :
        Holds(Machine(a, 16, 0, 95, 0, flags, Image(<<>>, 0, 0), 0))

---------------------------------------------------------------------------
(* Spec: the engine as its owner drives it: set_rom, reset and run_for.    *)
(* A run is followed until the observer's count of delivered units is full. *)

Init == InitEngine

Next ==
    \/ \E rom \in SteadyRoms \cup {StopRom} : CallSetRom(rom)
    \/ CallReset
    \/ \E cycles \in {1, ClockDivider, MaxTicks} :
            Delivered(last) < MaxCounted /\ RunFor(cycles)

Spec == Init /\ [][Next]_vars

---------------------------------------------------------------------------
(* SpecSteady: a new engine, with index mode clear, is given the ROM of    *)
(* LDA #v and a self-jump, and then only run.                              *)

InitSteady ==
    \E rom \in SteadyRoms, a \in {0, 129}, flags \in {0, 4, 195} :
        Holds(SetRom(Machine(a, 16, 0, 95, 0, flags, Image(<<>>, 0, 0), 0), rom))

NextSteady == \E cycles \in 0 .. MaxTicks : RunFor(cycles)

SpecSteady == InitSteady /\ [][NextSteady]_vars

\* The reset vector of a state's memory image.
ResetTarget(st) == Mem(st, ResetVector) + 256 * Mem(st, ResetVector + 1)

\* The reset target holds LDA #v, then a JMP to that JMP.
HoldsSteady(st) ==
    LET target == ResetTarget(st)
    IN  /\ target >= RomBase
        /\ target + 4 < ResetVector
        /\ Mem(st, target) = 169
        /\ Mem(st, target + 2) = 76
        /\ Mem(st, target + 3) + 256 * Mem(st, target + 4) = target + 2

\* The accumulator and the flags are those LDA #v leaves.
Loaded(v) ==
    /\ a_ = v
    /\ (Bit(Flags(State), 1) = 1) <=> (v = 0)
    /\ Bit(Flags(State), 7) = Bit(v, 7)

\* What C8 says stays as it is: A, X, Y, the stack pointer, the flags and
\* the memory.
Steady(st) == <<st.a_, st.x_, st.y_, st.s_, Flags(st), st.memory_>>

\* C8: with index mode clear and the ROM of LDA #v and a self-jump loaded,
\* once run_for has delivered more than LDA's cost (2) the accumulator is v,
\* zero is (v = 0) and negative is bit 7 of v; and a run_for that starts
\* after the LDA leaves A, X, Y, the stack pointer, the flags and the memory
\* as they were.
C8_SteadyState ==
    (/\ last.call = "run_for"
     /\ HoldsSteady(State)
     /\ ~last.before.index_mode_) =>
        LET target == ResetTarget(State)
            v == Mem(State, target + 1)
        IN  /\ last.delivered > 2 => Loaded(v) /\ program_counter_ = target + 2
            /\ last.before.program_counter_ = target + 2 =>
                    /\ Loaded(v)
                    /\ Steady(State) = Steady(last.before)
                    /\ program_counter_ = target + 2

\* C8 happens: LDA #0x42 has run, then the self-jump several times, and the
\* registers stayed: A = 0x42, zero clear, negative clear.
C8_Witness ==
    /\ last.call = "run_for"
    /\ HoldsSteady(State)
    /\ ~last.before.index_mode_
    /\ last.delivered > 2
    /\ last.units > 0
    /\ last.before.program_counter_ = ResetTarget(State) + 2
    /\ last.before.remaining_duration_ + last.units > 0
    /\ a_ = 66
    /\ Bit(Flags(State), 1) = 0
    /\ Bit(Flags(State), 7) = 0

---------------------------------------------------------------------------
(* SpecRom: every opcode, performed from ROM with operands, pointers and   *)
(* index registers that aim at ROM addresses.                              *)

InitRom ==
    \E opcode \in Byte, b1 \in {16, 240}, b2 \in {24, 31},
       x \in {16, 255}, flags \in {0, 32} :
        Holds(Machine(129, x, 15, 95, RomBase, flags,
                      Image(Placed(<<opcode, b1, b2>>, RomBase)
                                @@ Placed(<<7, 7>>, RomBase + 2048 + 240), 16, 24),
                      MaxBudget))

SpecRom == InitRom /\ [][Step]_vars

\* The ROM region of the memory image.
RomRegion == RomBase .. (MemorySize - 1)

\* C11: no executed instruction (stores, read-modify-write operations,
\* pushes, LDM, index-mode write-backs) changes a byte of memory in
\* 0x1000..0x1FFF.
C11_RomReadOnly ==
    last.call = "perform" =>
        \A i \in Touched(State, last.before) \cap RomRegion :
            Mem(State, i) = Mem(last.before, i)

\* C11 happens: STA with an absolute address in ROM was performed and the
\* byte there is as it was, not the accumulator's.
C11_Witness ==
    /\ last.call = "perform"
    /\ last.operation = "STA"
    /\ last.addressing_mode = "Absolute"
    /\ Next16(last.before) \in RomRegion
    /\ Mem(State, Next16(last.before)) = Mem(last.before, Next16(last.before))
    /\ Mem(State, Next16(last.before)) # a_

---------------------------------------------------------------------------
(* SpecRead: read called on its own, over the first 256 addresses, the     *)
(* addresses around the ROM and addresses above the array that are masked. *)

ReadAddresses ==
    (0 .. 255) \cup {256, 2048, RomBase - 1, RomBase, RomBase + 1, AddressMask,
                     MemorySize + 95, MemorySize + 96, MemorySize + 208, 65535}

InitRead ==
    \E first \in {0, 169} :
        Holds(Machine(129, 16, 1, 95, RomBase, 0,
                      Image(Placed(<<first, 66>>, RomBase), 16, 15), 0))

NextRead == \E address \in ReadAddresses : CallRead(address)

SpecRead == InitRead /\ [][NextRead]_vars

\* The addresses C12 calls stubbed, and those it calls undefined.
StubbedRanges == (208 .. 223) \cup (224 .. 233) \cup (249 .. 255)
UndefinedAddresses == (RamTop .. (RomBase - 1)) \ StubbedRanges

\* C12: read(address) returns 0xFF for every masked address in 0xD0..0xDF,
\* 0xE0..0xE9 and 0xF9..0xFF, and for every other masked address that is
\* neither RAM (below 0x60) nor ROM.
C12_ReadPlaceholders ==
    (/\ last.call = "read"
     /\ (last.address % MemorySize) \in StubbedRanges \cup UndefinedAddresses) =>
        last.value = 255

---------------------------------------------------------------------------
(* SpecLoad: set_rom called with images of several lengths, shorter than,  *)
(* as long as and longer than the ROM region, on engines whose memory      *)
(* already holds bytes.                                                    *)

\* An image of n bytes, each byte telling its position and the image's seed.
RomImage(n, seed) == [i \in 1 .. n |-> (i * 7 + seed) % 256]

LoadRoms ==
    {RomImage(n, seed) : n \in {0, 1, 2, 16}, seed \in {3, 120}}
        \cup {RomImage(n, 3) : n \in {RomSize, RomSize + 1, RomSize + 904}}

InitLoad ==
    \E a \in {0, 129} :
        Holds(Machine(a, 16, 1, 95, 0, 36,
                      Image(Placed(<<169, 66, 52, 18>>, MemorySize - 4)
                                @@ Placed(<<7>>, RomBase - 1), 16, 15), 0))

NextLoad == \E rom \in LoadRoms : CallSetRom(rom)

SpecLoad == InitLoad /\ [][NextLoad]_vars

\* The addresses at which the memory before or after a load may hold a byte
\* that is not 0.
Loadable == Touched(State, last.before)

\* C13: set_rom(bytes) with n = len(bytes) <= 4096 leaves
\* memory[0x2000 - n + i] = bytes[i] for all i < n, leaves every byte below
\* 0x2000 - n as it was, and sets the program counter to
\* memory[0x1FFE] | memory[0x1FFF] << 8 as they stand after the copy.
C13_RomLoading ==
    (last.call = "set_rom" /\ Len(last.rom) <= RomSize) =>
        LET n == Len(last.rom)
        IN  /\ \A i \in 0 .. (n - 1) : Mem(State, MemorySize - n + i) = last.rom[i + 1]
            /\ \A j \in Loadable : j < MemorySize - n => Mem(State, j) = Mem(last.before, j)
            /\ program_counter_ = Mem(State, ResetVector) + 256 * Mem(State, ResetVector + 1)

\* C13 happens: an image of one byte was loaded: it is the reset vector's
\* high byte, and the low byte is the one that was there.
C13_Witness ==
    /\ last.call = "set_rom"
    /\ Len(last.rom) = 1
    /\ Mem(last.before, ResetVector) = 52
    /\ Mem(last.before, ResetVector + 1) # last.rom[1]
    /\ program_counter_ = 52 + 256 * last.rom[1]

\* C14 as stated: set_rom(bytes) with len(bytes) > 4096 writes nothing
\* outside 0x1000..0x1FFF, the final byte of bytes lands at 0x1FFF and the
\* reset vector is taken from the last two bytes of bytes.
C14_OversizedKeepsEnd ==
    (last.call = "set_rom" /\ Len(last.rom) > RomSize) =>
        LET n == Len(last.rom)
        IN  /\ \A j \in Loadable : j < RomBase => Mem(State, j) = Mem(last.before, j)
            /\ Mem(State, MemorySize - 1) = last.rom[n]
            /\ program_counter_ = last.rom[n - 1] + 256 * last.rom[n]

\* C14, amended: set_rom(bytes) with len(bytes) > 4096 writes nothing outside
\* 0x1000..0x1FFF and keeps the first 4096 bytes: memory[0x1000 + i] =
\* bytes[i] for i < 4096, so bytes[4095] lands at 0x1FFF and the reset vector
\* is bytes[4094] | bytes[4095] << 8.
C14_OversizedKeepsStart ==
    (last.call = "set_rom" /\ Len(last.rom) > RomSize) =>
        /\ \A j \in Loadable : j < RomBase => Mem(State, j) = Mem(last.before, j)
        /\ \A i \in 0 .. (RomSize - 1) : Mem(State, RomBase + i) = last.rom[i + 1]
        /\ program_counter_ = last.rom[RomSize - 1] + 256 * last.rom[RomSize]

\* C14 happens: an image of 5000 bytes was loaded, and the byte at 0x1FFF is
\* its byte 4095, not its last.
C14_Witness ==
    /\ last.call = "set_rom"
    /\ Len(last.rom) = RomSize + 904
    /\ Mem(State, MemorySize - 1) = last.rom[RomSize]
    /\ Mem(State, MemorySize - 1) # last.rom[RomSize + 904]
    /\ Mem(State, RomBase - 1) = 7

---------------------------------------------------------------------------
(* The clock adapter, under SpecSteady: run_for called with every split of *)
(* the ticks.                                                              *)

\* C15: after run_for(c1), ..., run_for(cn) the engine units handed to the
\* loop are floor((c1 + ... + cn) / 4) and the ticks retained are
\* (c1 + ... + cn) mod 4.
C15_ClockRatio ==
    (last.call = "run_for" /\ last.ticks < ClockDivider * MaxCounted) =>
        /\ last.delivered = last.ticks \div ClockDivider
        /\ cycles_ = last.ticks % ClockDivider

\* C15 happens: 3 ticks, then more that make 11 or more in all: the first
\* call handed over nothing, and none of its ticks was lost.
C15_Witness ==
    /\ last.call = "run_for"
    /\ last.before.remaining_duration_ = 0
    /\ last.ticks - last.cycles = 3
    /\ last.ticks \in 11 .. 15
    /\ last.delivered = 2 + last.ticks \div 12
    /\ cycles_ = last.ticks % ClockDivider

---------------------------------------------------------------------------
(* SpecBudget: a new engine is given a ROM with a short program and then   *)
(* only run, a few ticks at a time.  A run is followed until the           *)
(* observer's count of delivered units is full.                            *)

\* A ROM whose reset vector and interrupt vector both point at program,
\* which lies below the interrupt vector.
ProgramRom(program) ==
    LET start == InterruptVector - Len(program)
    IN  program \o <<Low(start), High(start)>> \o Zeros(8) \o <<Low(start), High(start)>>

\* INX; BNE to the INX
CountProgram == <<232, 208, 253>>
\* INC 0x10; JMP to the INC
MemoryProgram == <<230, 16, 76, Low(InterruptVector - 5), High(InterruptVector - 5)>>
\* SET; LDA #1; PHA; BRA to the LDA
IndexProgram == <<50, 169, 1, 72, 128, 251>>
\* BRK; NOP
BreakProgram == <<0, 234>>
\* STP; INX; INX
StopProgram == <<66, 232, 232>>

BudgetRoms ==
    {ProgramRom(program) : program \in {CountProgram, MemoryProgram, IndexProgram,
                                        BreakProgram, StopProgram}}

InitBudget ==
    \E rom \in BudgetRoms, x \in {1, 254} :
        Holds(SetRom(Machine(129, x, 0, 95, 0, 0, Image(<<>>, 0, 0), 0), rom))

NextBudget ==
    \E cycles \in 0 .. MaxTicks : Delivered(last) < MaxCounted /\ RunFor(cycles)

SpecBudget == InitBudget /\ [][NextBudget]_vars

\* The cost of the instruction at the program counter, from the cost table
\* and the penalty of a taken conditional branch.
InstructionCost(st) ==
    LET performer == PerformerFor(Fetch(st))
    IN  Cost(st, performer.operation, performer.addressing_mode)
            + (IF /\ performer.operation \in ConditionalBranches
                  /\ BranchTaken(st, performer.operation)
               THEN 2 ELSE 0)

\* The costs of the instructions a run from st performs, the last one first.
RECURSIVE RunCosts(_)
RunCosts(st) ==
    IF st.remaining_duration_ > 0 /\ ~st.is_stopped_
    THEN CHOOSE costs \in {RunCosts(next) \o <<InstructionCost(st)>> :
                                next \in {Execute(st, 0)}} : TRUE
    ELSE <<>>

RECURSIVE Sum(_)
Sum(costs) == IF costs = <<>> THEN 0 ELSE Head(costs) + Sum(Tail(costs))

\* The state in which the loop of the last run_for call began.
Started == [last.before EXCEPT !.remaining_duration_ = @ + last.units]

\* C16: over run_for calls on an engine that is not stopped, the remaining
\* budget is the units delivered less the costs of the instructions
\* performed; instructions are performed whole, and only while the budget is
\* positive; what a call leaves of the budget, negative or not, is what the
\* next call adds its units to.
C16_BudgetAccounting ==
    (last.call = "run_for" /\ ~last.before.is_stopped_) =>
        \E costs \in {RunCosts(Started)} :
            /\ remaining_duration_
                    = last.before.remaining_duration_ + last.units - Sum(costs)
            /\ remaining_duration_ <= 0 \/ is_stopped_
            /\ costs # <<>> => remaining_duration_ + Head(costs) > 0
            /\ costs = <<>> =>
                    [State EXCEPT !.remaining_duration_ = 0]
                        = [last.before EXCEPT !.remaining_duration_ = 0]

\* C16 happens: a call left the budget at -1; the next call added 2 units
\* to that, performed one instruction, a taken BNE of cost 4, and left -3.
C16_Witness ==
    /\ last.call = "run_for"
    /\ ~is_stopped_
    /\ last.before.remaining_duration_ = -1
    /\ last.units = 2
    /\ Fetch(last.before) = 208
    /\ RunCosts(Started) = <<4>>
    /\ remaining_duration_ = -3


---------------------------------------------------------------------------
(* The stop latch, under SpecBudget.                                       *)

\* st with the budget left out of the comparison.
Frozen(st) == [st EXCEPT !.remaining_duration_ = 0]

\* What opcode, performed in st, leaves.
Performed(st, opcode) ==
    CHOOSE after \in {Perform(st, performer.operation, performer.addressing_mode, 0) :
                            performer \in {PerformerFor(opcode)}} : TRUE

\* C17: a run_for call on a stopped engine performs nothing: registers,
\* flags, program counter, memory and the latch are as they were; a call
\* in which the engine stops ends right behind the STP, whatever is left of
\* the budget; and of all 256 opcodes, performed on a new engine with the
\* latch clear or set, only STP sets the latch and none clears it.
C17_StopAbsorbing ==
    /\ (last.call = "run_for" /\ last.before.is_stopped_) =>
            Frozen(State) = Frozen(last.before)
    /\ (last.call = "run_for" /\ is_stopped_ /\ ~last.before.is_stopped_) =>
            Decode(Mem(State, BitAnd(program_counter_ - 1, AddressMask))).operation = "STP"
    /\ last.call = "none" =>
            \A opcode \in Byte, latch \in BOOLEAN :
                \E probe \in {[State EXCEPT !.is_stopped_ = latch]} :
                    Performed(probe, opcode).is_stopped_
                        = (latch \/ PerformerFor(opcode).operation = "STP")

\* C17 happens: the engine had stopped at STP with an INX next; a later
\* call delivered units, the budget is positive, and the INX was not
\* performed.
C17_Witness ==
    /\ last.call = "run_for"
    /\ last.before.is_stopped_
    /\ is_stopped_
    /\ last.units > 0
    /\ remaining_duration_ > 0
    /\ Fetch(State) = 232
    /\ x_ = last.before.x_


---------------------------------------------------------------------------
(* SpecDecimal: ADC #b and SBC #b with decimal mode set, for every pair of *)
(* valid BCD bytes and both carries.                                       *)

\* The bytes whose two nibbles are decimal digits.
BcdBytes == {16 * tens + ones : tens \in 0 .. 9, ones \in 0 .. 9}

\* ADC #, SBC #
DecimalOpcodes == {105, 233}

InitDecimal ==
    \E opcode \in DecimalOpcodes, a \in BcdBytes, b \in BcdBytes, carry \in {0, 1} :
        Holds(Machine(a, 16, 15, 95, RomBase, 8 + carry,
                      Image(Placed(<<opcode, b>>, RomBase), 16, 24), 1))

SpecDecimal == InitDecimal /\ [][Step]_vars

\* The number a BCD byte stands for, and the BCD byte of a number below 100.
FromBcd(byte) == 10 * (byte \div 16) + (byte % 16)
ToBcd(number) == 16 * (number \div 10) + (number % 10)

\* The reference decimal adder: the result byte and the carry out.
ReferenceAdd(a, b, carry) ==
    LET total == FromBcd(a) + FromBcd(b) + carry
    IN  [result |-> ToBcd(total % 100), carry |-> IF total >= 100 THEN 1 ELSE 0]

ReferenceSubtract(a, b, carry) ==
    LET difference == FromBcd(a) - FromBcd(b) - (1 - carry)
    IN  [result |-> ToBcd(difference % 100), carry |-> IF difference >= 0 THEN 1 ELSE 0]

\* C18: with decimal mode set, valid BCD bytes a and b and carry c, the
\* result byte of ADC (the byte N and Z are taken from) is a valid BCD byte,
\* the BCD of (a + b + c) mod 100, with carry out exactly when the sum
\* reaches 100; that of SBC is the BCD of (a - b - (1 - c)) mod 100, with
\* carry out exactly when there was no borrow.
C18_DecimalArithmetic ==
    (last.call = "perform" /\ last.operation \in {"ADC", "SBC"}
        /\ last.before.decimal_mode_) =>
        \E reference \in
            {IF last.operation = "ADC"
             THEN ReferenceAdd(last.before.a_, Next8(last.before), last.before.carry_flag_)
             ELSE ReferenceSubtract(last.before.a_, Next8(last.before),
                                    last.before.carry_flag_)} :
            /\ zero_result_ \in BcdBytes
            /\ zero_result_ = reference.result
            /\ negative_result_ = reference.result
            /\ carry_flag_ = reference.carry

\* C18 happens: 0x21 - 0x34 with carry set was performed in decimal mode:
\* both lanes borrowed, the result is 0x87 and the carry is clear.
C18_Witness ==
    /\ last.call = "perform"
    /\ last.operation = "SBC"
    /\ last.before.decimal_mode_
    /\ last.before.a_ = 33
    /\ Next8(last.before) = 52
    /\ last.before.carry_flag_ = 1
    /\ zero_result_ = 135
    /\ carry_flag_ = 0


---------------------------------------------------------------------------
(* SpecIndex: every opcode, with operand bytes that form addresses inside  *)
(* and beyond the memory image.                                            *)

InitIndex ==
    \E opcode \in Byte, b1 \in {16, 255}, b2 \in {24, 32, 255}, x \in {16, 255} :
        Holds(Machine(129, x, 15, 95, RomBase, 0,
                      Image(Placed(<<opcode, b1, b2>>, RomBase), 16, 24), 1))

SpecIndex == InitIndex /\ [][Step]_vars

\* The indices of next8() and of the byte after it.
Next8Index(st) == BitAnd(st.program_counter_ + 1, AddressMask)
Second8Index(st) == BitAnd(st.program_counter_ + 2, AddressMask)

\* The indices at which perform<operation, addressing_mode>() subscripts
\* memory_ to fetch its operand bytes and pointers.
Indices(st, addressing_mode) ==
    CASE addressing_mode \in {"Implied", "Accumulator"} -> {}
      [] addressing_mode \in {"Immediate", "Relative", "SpecialPage", "ZeroPage",
                              "ZeroPageX", "ZeroPageY", "AccumulatorRelative"} ->
            {Next8Index(st)}
      [] addressing_mode \in {"Absolute", "AbsoluteX", "AbsoluteY",
                              "ImmediateZeroPage", "ZeroPageRelative"} ->
            {Next8Index(st), Second8Index(st)}
      [] addressing_mode = "ZeroPageIndirect" ->
            {Next8Index(st), Next8(st), BitAnd(Next8(st) + 1, 255)}
      [] addressing_mode = "XIndirect" ->
            {Next8Index(st), BitAnd(Next8(st) + st.x_, 255),
             BitAnd(BitAnd(Next8(st) + st.x_, 255) + 1, 255)}
      [] addressing_mode = "IndirectY" ->
            {Next8Index(st), Next8(st), BitAnd(Next8(st) + 1, 255)}
      [] addressing_mode = "AbsoluteIndirect" ->
            {Next8Index(st), Second8Index(st), Next16(st),
             BitAnd(Next16(st) + 1, AddressMask)}

\* C19: whatever instruction is performed, in whatever addressing mode,
\* every index at which the memory image is subscripted, the pointer
\* fetches of the indirect modes included, lies in 0 .. 0x1FFF.
C19_IndexingMasked ==
    last.call = "perform" =>
        Indices(last.before, last.addressing_mode) \subseteq 0 .. (MemorySize - 1)


---------------------------------------------------------------------------
(* The .z80 snapshot loader, Storage::State::Z80::load.  A file is a       *)
(* sequence of bytes; offsets count from 0 as the file cursor does.        *)

\* FileHolder::get8, get16le and get16be at a cursor position.
Get8(file, at) == file[at + 1]
Get16le(file, at) == file[at + 1] + 256 * file[at + 2]
Get16be(file, at) == 256 * file[at + 1] + file[at + 2]

\* return nullptr
Null == [target |-> FALSE]

\* The registers of the version 1 header, with the given program counter.
Z80Registers(file, program_counter) ==
    LET raw_misc == Get8(file, 12)
        misc == IF raw_misc = 255 THEN 1 ELSE raw_misc
        ir == Get16be(file, 10)
    IN  [a |-> Get8(file, 0),
         flags |-> Get8(file, 1),
         bc |-> Get16le(file, 2),
         hl |-> Get16le(file, 4),
         program_counter |-> program_counter,
         stack_pointer |-> Get16le(file, 8),
         ir |-> BitOr(ir - (128 * Bit(ir, 7)), 128 * Bit(misc, 0)),
         de |-> Get16le(file, 13),
         bc_dash |-> Get16le(file, 15),
         de_dash |-> Get16le(file, 17),
         hl_dash |-> Get16le(file, 19),
         af_dash |-> Get16be(file, 21),
         iy |-> Get16le(file, 23),
         ix |-> Get16le(file, 25),
         iff1 |-> Get8(file, 27) # 0,
         iff2 |-> Get8(file, 28) # 0,
         interrupt_mode |-> BitAnd(Get8(file, 29), 3)]

\* The target a successful load returns: its model, the registers of its
\* state and the size of the state's RAM.
Target(model, registers, ram) ==
    [target |-> TRUE, model |-> model, registers |-> registers, ram |-> ram]

\* HardwareModel with the default case taken for a 48k machine.
MutHardwareModel(byte) ==
    CASE byte = 3 -> "OneTwoEightK"
      [] byte \in {7, 8} -> "Plus3"
      [] byte = 12 -> "Plus2"
      [] byte = 13 -> "Plus2a"
      [] OTHER -> "FortyEightK"

\* The switch on the hardware-model byte; "default" stands for its
\* default case.
HardwareModel(byte) ==
    CASE byte = 0 -> "FortyEightK"
      [] byte = 3 -> "OneTwoEightK"
      [] byte \in {7, 8} -> "Plus3"
      [] byte = 12 -> "Plus2"
      [] byte = 13 -> "Plus2a"
      [] OTHER -> "default"

\* The switch under the 'hardware modify' bit.
Modified(model, flag) ==
    IF Bit(flag, 7) = 0 THEN model
    ELSE CASE model = "FortyEightK" -> "SixteenK"
           [] model = "OneTwoEightK" -> "Plus2"
           [] model = "Plus3" -> "Plus2a"
           [] OTHER -> model

\* Z80::load, of a file that holds every byte the load reads.
Load(file) ==
    IF Get16le(file, 6) # 0
    THEN Target("FortyEightK", Z80Registers(file, Get16le(file, 6)), 48 * 1024)
    ELSE LET bonus_header_size == Get16le(file, 30)
         IN  IF bonus_header_size \notin {23, 54, 55}
             THEN Null
             ELSE IF HardwareModel(Get8(file, 34)) = "default"
             THEN Null
             ELSE Target(Modified(HardwareModel(Get8(file, 34)), Get8(file, 37)),
                         Z80Registers(file, Get16le(file, 32)), 128 * 1024)

\* A snapshot file: the version 1 header with the given program counter,
\* then the extended header with the given size, hardware-model byte and
\* 'hardware modify' flag, long enough for the longest extended header.
SnapshotFile(program_counter, size, hardware, flag) ==
    <<18, 69, 3, 4, 5, 6, Low(program_counter), High(program_counter), 0, 255, 63, 130,
      1, 7, 8, 9, 10, 11, 12, 13, 14, 15, 16, 17, 18, 19, 20, 1, 0, 253>>
        \o <<Low(size), High(size), 52, 18, hardware, 0, 0, flag>> \o Zeros(50)

SnapshotFiles ==
    {SnapshotFile(program_counter, size, hardware, flag) :
        program_counter \in {0, 32768},
        size \in {0, 22, 23, 24, 54, 55, 56, 279, 65535},
        hardware \in (0 .. 14) \cup {255},
        flag \in {0, 128}}

CallLoad(file) ==
    /\ last.n < MaxCalls
    /\ UNCHANGED <<a_, x_, y_, s_, program_counter_, negative_result_,
                   overflow_result_, zero_result_, index_mode_, decimal_mode_,
                   interrupt_disable_, carry_flag_, memory_, cycles_,
                   remaining_duration_, is_stopped_>>
    /\ last' = [call |-> "load", n |-> last.n + 1, file |-> file,
                result |-> Load(file)]

InitSnapshot == Holds(Machine(0, 0, 0, 0, 0, 0, Image(<<>>, 0, 0), 0))

NextSnapshot == \E file \in SnapshotFiles : CallLoad(file)

SpecSnapshot == InitSnapshot /\ [][NextSnapshot]_vars

\* C20: of a file that has an extended header (the program counter of its
\* version 1 header is 0), Z80::load returns null, and so no target at all,
\* whenever the extended header size is not 23, 54 or 55 or the
\* hardware-model byte is not one of 0, 3, 7, 8, 12, 13.
C20_RejectsUnsupported ==
    (/\ last.call = "load"
     /\ Get16le(last.file, 6) = 0
     /\ \/ Get16le(last.file, 30) \notin {23, 54, 55}
        \/ Get8(last.file, 34) \notin {0, 3, 7, 8, 12, 13}) =>
        /\ last.result = Null
        /\ DOMAIN last.result = {"target"}

\* C20 happens: a file with an extended header of a supported size, 54, and
\* the hardware-model byte 9 was loaded, and no target came back.
C20_Witness ==
    /\ last.call = "load"
    /\ Get16le(last.file, 6) = 0
    /\ Get16le(last.file, 30) = 54
    /\ Get8(last.file, 34) = 9
    /\ ~last.result.target


---------------------------------------------------------------------------
(* SpecBit: the bit-test-and-branch, bit-set, bit-clear and relative       *)
(* branch instructions, on bytes with alternating bits.                    *)

BitOpcodes ==
    {opcode \in Byte :
        Decode(opcode).operation \in
            SeqSet(BBSOps) \cup SeqSet(BBCOps) \cup SeqSet(SEBOps) \cup SeqSet(CLBOps)
                \cup ConditionalBranches \cup {"BRA"}}

InitBit ==
    \E opcode \in BitOpcodes, b1 \in {16, 240}, b2 \in {24, 240},
       a \in {85, 170}, m \in {85, 170}, flags \in {0, 195} :
        Holds(Machine(a, 16, 1, 95, RomBase, flags,
                      Image(Placed(<<opcode, b1, b2>>, RomBase), 16, m), 1))

SpecBit == InitBit /\ [][Step]_vars

\* The byte a bit-test-and-branch in st tests, its signed displacement, and
\* the program counter after the instruction.
Tested(st, addressing_mode) ==
    IF addressing_mode = "AccumulatorRelative" THEN st.a_ ELSE Read(st, Next8(st))

Displacement(st, addressing_mode) ==
    S8(IF addressing_mode = "ZeroPageRelative" THEN Second8(st) ELSE Next8(st))

PostPC(st, addressing_mode) == st.program_counter_ + 1 + Size(addressing_mode)

\* C21: BBSn, in both sub-modes, continues at the post-instruction program
\* counter plus the signed displacement if bit n of the tested byte is 1,
\* and at the post-instruction program counter if it is 0.
C21_BitSetBranch ==
    (last.call = "perform" /\ last.operation \in SeqSet(BBSOps)) =>
        program_counter_ =
            IF Bit(Tested(last.before, last.addressing_mode),
                   IndexIn(BBSOps, last.operation)) = 1
            THEN U16(PostPC(last.before, last.addressing_mode)
                        + Displacement(last.before, last.addressing_mode))
            ELSE PostPC(last.before, last.addressing_mode)

\* C22: BBCn, in both sub-modes, continues at the post-instruction program
\* counter plus the signed displacement if bit n of the tested byte is 0,
\* and at the post-instruction program counter if it is 1.
C22_BitClearBranch ==
    (last.call = "perform" /\ last.operation \in SeqSet(BBCOps)) =>
        program_counter_ =
            IF Bit(Tested(last.before, last.addressing_mode),
                   IndexIn(BBCOps, last.operation)) = 0
            THEN U16(PostPC(last.before, last.addressing_mode)
                        + Displacement(last.before, last.addressing_mode))
            ELSE PostPC(last.before, last.addressing_mode)


---------------------------------------------------------------------------
(* Binary addition and subtraction, under SpecAcc.                         *)

\* C23: with decimal mode clear, ADC of v to a with carry c leaves carry =
\* bit 8 of a + v + c and overflow = bit 7 of (result XOR a) AND (result
\* XOR v); SBC leaves the same with v XOR 0xFF in place of v, so that carry
\* is set exactly when there was no borrow.
C23_BinaryFlags ==
    (last.call = "perform" /\ last.operation \in {"ADC", "SBC"}
        /\ ~last.before.decimal_mode_) =>
        LET a == IndexSource(last.before)
            v == OperandOf(last.before, last.addressing_mode)
            w == IF last.operation = "ADC" THEN v ELSE BitXor(v, 255)
            sum == a + w + last.before.carry_flag_
        IN  /\ carry_flag_ = Bit(sum, 8)
            /\ carry_flag_ = 1 <=>
                    (IF last.operation = "ADC"
                     THEN a + v + last.before.carry_flag_ >= 256
                     ELSE a >= v + (1 - last.before.carry_flag_))
            /\ Bit(overflow_result_, 7)
                    = Bit(BitAnd(BitXor(U8(sum), a), BitXor(U8(sum), w)), 7)


---------------------------------------------------------------------------
(* The overflow flag of decimal arithmetic, under SpecDecimal.             *)

\* C24: with decimal mode set, the overflow flag after ADC or SBC is bit 7
\* of (result XOR a) AND (result XOR operand), the operand complemented for
\* SBC, where result is the corrected decimal byte, the one N and Z are
\* taken from.
C24_DecimalOverflow ==
    (last.call = "perform" /\ last.operation \in {"ADC", "SBC"}
        /\ last.before.decimal_mode_) =>
        LET a == IndexSource(last.before)
            v == OperandOf(last.before, last.addressing_mode)
            w == IF last.operation = "ADC" THEN v ELSE BitXor(v, 255)
        IN  Bit(overflow_result_, 7)
                = Bit(BitAnd(BitXor(zero_result_, a), BitXor(zero_result_, w)), 7)


---------------------------------------------------------------------------
(* The return address of BRK, under SpecBrk.                               *)

\* C25: BRK at P (stack in writable RAM) pushes P + 2, the address after
\* its unused operand byte, as return address, and an RTI performed on the
\* frame BRK left resumes at P + 2 with the seven flags as they were before
\* the BRK.
C25_BreakReturn ==
    BrkPerformed =>
        \E back \in {Perform(State, "RTI", "Implied", 0)} :
            LET P == last.before.program_counter_
                s == last.before.s_
            IN  /\ Mem(State, s) * 256 + Mem(State, s - 1) = U16(P + 2)
                /\ back.program_counter_ = U16(P + 2)
                /\ Flags(back) = Flags(last.before)
                /\ back.s_ = s


---------------------------------------------------------------------------
(* SpecCall: JSR in its three addressing modes, from several addresses and *)
(* stack pointers, to a subroutine that is a single RTS.                   *)

\* JSR zero-page indirect, absolute and special page; their operand bytes
\* and the zero-page pointer lead to 0x1810 or 0x1F10, where an RTS lies.
InitCall ==
    \E opcode \in {2, 32, 34},
       pc \in {RomBase, RomBase + 253, RomBase + 254, RomBase + 255, AddressMask - 2},
       s \in {0, 1, 2, 64, 95, 96, 255} :
        Holds(Machine(129, 16, 1, s, pc, 0,
                      Image(Placed(<<opcode, 16, 24>>, pc) @@ Placed(<<16, 24>>, 16)
                                @@ Placed(<<96>>, RomBase + 2064)
                                @@ Placed(<<96>>, RomBase + 3856), 0, 0),
                      8))

SpecCall == InitCall /\ [][Step]_vars

\* C26: JSR of length L at P, with s and s-1 in writable RAM, stores the
\* high byte of P + L - 1 at s and its low byte at s-1 and leaves the stack
\* pointer at s-2 (as a byte); an RTS on the stack as JSR left it resumes at P + L with
\* the stack pointer at s again, and that is what the RTS that follows does.
C26_SubroutineRoundTrip ==
    /\ (/\ last.call = "perform"
        /\ last.operation = "JSR"
        /\ last.before.s_ >= 1
        /\ last.before.s_ < RamTop) =>
            \E back \in {Perform(State, "RTS", "Implied", 0)} :
                LET resume == last.before.program_counter_ + 1 + Size(last.addressing_mode)
                    s == last.before.s_
                IN  /\ Mem(State, s) = High(resume - 1)
                    /\ Mem(State, s - 1) = Low(resume - 1)
                    /\ s_ = U8(s - 2)
                    /\ back.program_counter_ = resume
                    /\ back.s_ = s
    /\ (last.call = "perform" /\ last.operation = "RTS") =>
            [Perform(last.before, "RTS", "Implied", 0) EXCEPT !.remaining_duration_ = 0]
                = [State EXCEPT !.remaining_duration_ = 0]

\* C26 happens: JSR absolute at 0x10FE with s = 0x5F went to 0x1810; the
\* RTS there came back to 0x1101 with s = 0x5F, the frame 0x11, 0x00 still
\* on the stack.
C26_Witness ==
    /\ last.call = "perform"
    /\ last.operation = "RTS"
    /\ last.n = 2
    /\ last.before.program_counter_ = RomBase + 2064
    /\ Mem(State, 95) = 17
    /\ Mem(State, 94) = 0
    /\ program_counter_ = RomBase + 257
    /\ s_ = 95


---------------------------------------------------------------------------
(* Branch timing, under SpecBit (no displacement there is 0, so a branch   *)
(* was taken exactly when the program counter is not the post-instruction  *)
(* one).                                                                   *)

\* C27: a conditional branch costs 2 when it is not taken and 4 when it is;
\* a bit-test-and-branch costs 4 (accumulator form) or 5 (zero-page form)
\* when it is not taken and 2 more when it is; BRA costs 4 always.
C27_BranchTiming ==
    (/\ last.call = "perform"
     /\ last.operation \in ConditionalBranches \cup {"BRA"}
                                \cup SeqSet(BBSOps) \cup SeqSet(BBCOps)) =>
        LET taken == program_counter_ # PostPC(last.before, last.addressing_mode)
            static == CASE last.operation = "BRA" -> 4
                        [] last.operation \in ConditionalBranches -> 2
                        [] last.addressing_mode = "AccumulatorRelative" -> 4
                        [] OTHER -> 5
        IN  last.before.remaining_duration_ - remaining_duration_
                = static + (IF taken /\ last.operation # "BRA" THEN 2 ELSE 0)

\* C27 happens: a zero-page bit-test-and-branch was taken and cost 7.
C27_Witness ==
    /\ last.call = "perform"
    /\ last.operation = "BBS0"
    /\ last.addressing_mode = "ZeroPageRelative"
    /\ program_counter_ = U16(PostPC(last.before, last.addressing_mode)
                                + Displacement(last.before, last.addressing_mode))
    /\ last.before.remaining_duration_ - remaining_duration_ = 7


---------------------------------------------------------------------------
(* The cost of index mode, under SpecRom.                                  *)

\* C28: ADC, AND, CMP, EOR, LDA, ORA and SBC are charged the base cost of
\* their addressing mode plus, exactly when index mode is set as the
\* instruction starts, 2 for LDA, 1 for CMP and 3 for the others; any other
\* instruction is charged what it is charged with the index-mode flag the
\* other way.
C28_IndexModeSurcharge ==
    last.call = "perform" =>
        LET charged == last.before.remaining_duration_ - remaining_duration_
            base == CASE last.addressing_mode \in {"XIndirect", "IndirectY"} -> 6
                      [] last.addressing_mode = "ZeroPage" -> 3
                      [] last.addressing_mode = "Immediate" -> 2
                      [] last.addressing_mode \in {"Absolute", "ZeroPageX"} -> 4
                      [] OTHER -> 5
            surcharge == CASE ~last.before.index_mode_ -> 0
                           [] last.operation = "LDA" -> 2
                           [] last.operation = "CMP" -> 1
                           [] OTHER -> 3
        IN  IF last.operation \in AccumulatorOps
            THEN /\ last.addressing_mode \in
                        {"XIndirect", "ZeroPage", "Immediate", "Absolute", "IndirectY",
                         "ZeroPageX", "AbsoluteY", "AbsoluteX"}
                 /\ charged = base + surcharge
            ELSE \E flipped \in {[last.before EXCEPT !.index_mode_ = ~@]} :
                    last.before.remaining_duration_
                        - Performed(flipped, last.opcode).remaining_duration_ = charged

\* C28 happens: LDA (zp,X) was performed with index mode set and cost 8.
C28_Witness ==
    /\ last.call = "perform"
    /\ last.operation = "LDA"
    /\ last.addressing_mode = "XIndirect"
    /\ last.before.index_mode_
    /\ last.before.remaining_duration_ - remaining_duration_ = 8


---------------------------------------------------------------------------
(* Bit set and bit clear, under SpecBit.                                   *)

\* C29: SEBn sets and CLBn clears bit n of the accumulator or of a writable
\* zero-page byte; the operand's other bits, every other register, every
\* other byte of memory and the flags are as they were.
C29_BitSetClear ==
    (/\ last.call = "perform"
     /\ last.operation \in SeqSet(SEBOps) \cup SeqSet(CLBOps)
     /\ last.addressing_mode = "Accumulator" \/ Next8(last.before) < RamTop) =>
        LET n == CHOOSE k \in 0 .. 7 : last.operation \in {SEBOps[k + 1], CLBOps[k + 1]}
            at == Next8(last.before)
            on_a == last.addressing_mode = "Accumulator"
            old == IF on_a THEN last.before.a_ ELSE Mem(last.before, at)
            new == IF on_a THEN a_ ELSE Mem(State, at)
        IN  /\ Bit(new, n) = (IF last.operation \in SeqSet(SEBOps) THEN 1 ELSE 0)
            /\ \A k \in (0 .. 7) \ {n} : Bit(new, k) = Bit(old, k)
            /\ on_a \/ a_ = last.before.a_
            /\ \A i \in Touched(State, last.before) :
                    (on_a \/ i # at) => Mem(State, i) = Mem(last.before, i)
            /\ [State EXCEPT !.a_ = 0, !.memory_ = <<>>, !.program_counter_ = 0,
                             !.remaining_duration_ = 0]
                    = [last.before EXCEPT !.a_ = 0, !.memory_ = <<>>,
                                          !.program_counter_ = 0,
                                          !.remaining_duration_ = 0]

\* C29 happens: SEB5 turned the zero-page byte 0x55 at 0x10 into 0x75.
C29_Witness ==
    /\ last.call = "perform"
    /\ last.operation = "SEB5"
    /\ last.addressing_mode = "ZeroPage"
    /\ Next8(last.before) = 16
    /\ Mem(last.before, 16) = 85
    /\ Mem(State, 16) = 117


---------------------------------------------------------------------------
(* SpecNZ: every instruction that sets N and Z from a result, on operands  *)
(* that give zero, negative and positive results.                          *)

\* The operations that hand a result to set_nz.
NZOps ==
    AccumulatorOps \cup ShiftOps
        \cup {"LDX", "LDY", "CPX", "CPY", "TXA", "TYA", "TAX", "TAY", "TSX",
               "INX", "INY", "DEX", "DEY", "COM", "TST", "PLA"}

InitNZ ==
    \E opcode \in {code \in Byte : Decode(code).operation \in NZOps},
       b1 \in {0, 16, 255}, a \in {0, 128, 255}, x \in {0, 255},
       m \in {0, 1, 128}, flags \in {0, 1, 32, 33} :
        Holds(Machine(a, x, x, 15, RomBase, flags,
                      Image(Placed(<<opcode, b1, 0>>, RomBase), 16, m), 1))

SpecNZ == InitNZ /\ [][Step]_vars

\* The 8-bit result of the operation performed in st (decimal mode clear),
\* from what the operation is: the byte loaded, transferred or pulled, the
\* register or operand counted up or down, shifted, rotated or
\* complemented, the logic result, the difference compared, the sum or
\* difference of ADC and SBC.
ResultOf(st, operation, addressing_mode) ==
    LET operand == IF addressing_mode = "Accumulator" THEN st.a_
                   ELSE IF addressing_mode = "Implied" THEN 0
                   ELSE OperandOf(st, addressing_mode)
        left == IF st.index_mode_ THEN Read(st, st.x_) ELSE st.a_
    IN  CASE operation \in {"LDA", "LDX", "LDY", "TST"} -> operand
          [] operation \in {"TXA", "INX", "DEX", "CPX"} ->
                (st.x_ + (CASE operation = "INX" -> 1 [] operation = "DEX" -> 255
                            [] operation = "CPX" -> 256 - operand [] OTHER -> 0)) % 256
          [] operation \in {"TYA", "INY", "DEY", "CPY"} ->
                (st.y_ + (CASE operation = "INY" -> 1 [] operation = "DEY" -> 255
                            [] operation = "CPY" -> 256 - operand [] OTHER -> 0)) % 256
          [] operation \in {"TAX", "TAY"} -> st.a_
          [] operation = "TSX" -> st.s_
          [] operation = "PLA" -> Read(st, (st.s_ + 1) % 256)
          [] operation = "INC" -> (operand + 1) % 256
          [] operation = "DEC" -> (operand + 255) % 256
          [] operation = "ASL" -> (2 * operand) % 256
          [] operation = "LSR" -> operand \div 2
          [] operation = "ROL" -> (2 * operand + st.carry_flag_) % 256
          [] operation = "ROR" -> (operand \div 2) + 128 * st.carry_flag_
          [] operation = "COM" -> 255 - operand
          [] operation = "ORA" -> BitOr(left, operand)
          [] operation = "AND" -> BitAnd(left, operand)
          [] operation = "EOR" -> BitXor(left, operand)
          [] operation = "CMP" -> (left + 256 - operand) % 256
          [] operation = "ADC" -> (left + operand + st.carry_flag_) % 256
          [] operation = "SBC" -> (left + 255 - operand + st.carry_flag_) % 256

\* C30: after an operation that sets N and Z from a result, the packed
\* status has zero set exactly when the 8-bit result is 0 and negative
\* equal to bit 7 of that result; the two are never both set.
C30_NZDerivation ==
    (last.call = "perform" /\ last.operation \in NZOps) =>
        \E result \in {ResultOf(last.before, last.operation, last.addressing_mode)} :
            /\ Bit(Flags(State), 1) = (IF result = 0 THEN 1 ELSE 0)
            /\ Bit(Flags(State), 7) = Bit(result, 7)
            /\ ~(Bit(Flags(State), 1) = 1 /\ Bit(Flags(State), 7) = 1)

\* C30 happens: ADC of 1 to 0xFF gave the result 0: zero is set and
\* negative is clear.
C30_Witness ==
    /\ last.call = "perform"
    /\ last.operation = "ADC"
    /\ last.addressing_mode = "ZeroPage"
    /\ last.before.a_ = 255
    /\ ~last.before.index_mode_
    /\ OperandOf(last.before, "ZeroPage") = 1
    /\ last.before.carry_flag_ = 0
    /\ Bit(Flags(State), 1) = 1
    /\ Bit(Flags(State), 7) = 0

---------------------------------------------------------------------------
(* SpecAddress: the loads and stores in the indexed and the indexed        *)
(* indirect addressing modes, with operands and index registers that      *)
(* cross a page, and marked bytes where the carry decides what is read.    *)

LoadOps == {"LDA", "LDX", "LDY"}
StoreOps == {"STA", "STX", "STY"}
IndexedModes == {"ZeroPageX", "ZeroPageY", "AbsoluteX", "AbsoluteY"}
PointerModes == {"XIndirect", "IndirectY"}

AddressOpcodes ==
    {opcode \in Byte :
        /\ Decode(opcode).operation \in LoadOps \cup StoreOps
        /\ Decode(opcode).addressing_mode \in IndexedModes \cup PointerModes}

\* RAM holds the pointers 0x10F0 at 0x10 and 0x0040 at 0x30; ROM holds the
\* instruction and three marked bytes, at 0x1010, 0x10F0 and 0x1110.
AddressImage(opcode, b1, b2) ==
    (16 :> 240) @@ (17 :> 16) @@ (48 :> 64) @@ (49 :> 0)
    @@ Image(Placed(<<opcode, b1, b2>>, RomBase)
             @@ (4112 :> 165) @@ (4336 :> 60) @@ (4368 :> 90), 0, 11)

InitAddress ==
    \E opcode \in AddressOpcodes, b1 \in {16, 48, 240, 255},
       b2 \in {0, 16, 63, 255}, x \in {0, 32, 255}, y \in {0, 32, 255} :
        /\ x # y
        /\ Holds(Machine(129, x, y, 95, RomBase, 0,
                         AddressImage(opcode, b1, b2), 1))

SpecAddress == InitAddress /\ [][Step]_vars

\* The register a load fills or a store writes.
RegisterOf(st, operation) ==
    CASE operation \in {"LDA", "STA"} -> st.a_
      [] operation \in {"LDX", "STX"} -> st.x_
      [] operation \in {"LDY", "STY"} -> st.y_

\* A load or a store has been performed at the given effective address:
\* the load has filled its register with the byte the bus reads there, the
\* store has left memory as the bus write of its register there leaves it.
AccessedAt(effective) ==
    /\ last.operation \in LoadOps =>
            RegisterOf(State, last.operation) = Read(last.before, effective)
    /\ last.operation \in StoreOps =>
            State.memory_ =
                Write(last.before, effective,
                      RegisterOf(last.before, last.operation)).memory_

\* The effective address of the indexed modes, as specified: no carry out
\* of the low byte in the zero-page modes, the full sum in the absolute.
IndexedAddress(st, addressing_mode) ==
    LET index == IF addressing_mode \in {"ZeroPageX", "AbsoluteX"}
                 THEN st.x_ ELSE st.y_
    IN  IF addressing_mode \in {"ZeroPageX", "ZeroPageY"}
        THEN (Next8(st) + index) % 256
        ELSE Next8(st) + 256 * Second8(st) + index

\* C31: a load or store in ZeroPageX/ZeroPageY accesses the address
\* (operand byte + X or Y) mod 256, which lies in 0x00..0xFF; in
\* AbsoluteX/AbsoluteY it accesses the 16-bit little-endian operand plus X
\* or Y with the carry propagated into the high byte, the sum being cut to
\* 13 bits by the bus alone.
C31_IndexedWrap ==
    (last.call = "perform" /\ last.addressing_mode \in IndexedModes) =>
        \E effective \in {IndexedAddress(last.before, last.addressing_mode)} :
            /\ last.addressing_mode \in {"ZeroPageX", "ZeroPageY"} =>
                    effective \in 0 .. 255
            /\ AccessedAt(effective)

\* Reached: LDA zp,X whose sum passed 0xFF has loaded the byte of page zero
\* (not the byte 256 above it), and LDA abs,X whose low byte carried has
\* loaded the marked byte at 0x1110 (not the one at 0x1010).
C31_Witness ==
    /\ last.call = "perform"
    /\ last.operation = "LDA"
    /\ \/ /\ last.addressing_mode = "ZeroPageX"
          /\ Next8(last.before) + last.before.x_ = 272
          /\ State.a_ = 240
       \/ /\ last.addressing_mode = "AbsoluteX"
          /\ Next16(last.before) = 4336
          /\ last.before.x_ = 32
          /\ State.a_ = 90

\* The pointer of the indirect modes, as specified: two bytes of page zero,
\* the second at the successor modulo 256 of the first one's address.
PointerAt(st, zero_page) ==
    Mem(st, zero_page) + 256 * Mem(st, (zero_page + 1) % 256)

\* The effective address of the indexed indirect modes, as specified.
PointerAddress(st, addressing_mode) ==
    IF addressing_mode = "XIndirect"
    THEN PointerAt(st, (Next8(st) + st.x_) % 256)
    ELSE PointerAt(st, Next8(st)) + st.y_

\* C32: a load or store in X-Indirect accesses the address held
\* little-endian at z = (operand + X) mod 256 and (z + 1) mod 256; in
\* Indirect-Y it accesses the pointer held at operand and
\* (operand + 1) mod 256, plus Y, the addition not being cut to 8 bits;
\* both bytes of the pointer come from page zero.
C32_PointerFetch ==
    (last.call = "perform" /\ last.addressing_mode \in PointerModes) =>
        AccessedAt(PointerAddress(last.before, last.addressing_mode))

\* Reached: LDA (zp,X) with z = 0xFF has taken the pointer's high byte from
\* address 0 and loaded from 0x0B00; and LDA (zp),Y with pointer 0x10F0 and
\* Y = 0x20 has loaded the marked byte at 0x1110.
C32_Witness ==
    /\ last.call = "perform"
    /\ last.operation = "LDA"
    /\ \/ /\ last.addressing_mode = "XIndirect"
          /\ (Next8(last.before) + last.before.x_) % 256 = 255
          /\ PointerAddress(last.before, "XIndirect") = 2816
       \/ /\ last.addressing_mode = "IndirectY"
          /\ Next8(last.before) = 16
          /\ last.before.y_ = 32
          /\ State.a_ = 90

---------------------------------------------------------------------------
(* LDM, the one instruction of the ImmediateZeroPage mode, under SpecIndex *)
(* (destinations 0x18, 0x20 and 0xFF, values 0x10 and 0xFF).               *)

\* C33: LDM at P with following bytes (value, destination) leaves the
\* state a bus write of value at destination leaves (the byte is stored
\* only when destination < 0x60), with the program counter at P + 3 and
\* the budget 4 lower; no register, no flag and no other byte changes.
C33_LoadMemoryImmediate ==
    (last.call = "perform" /\ last.operation = "LDM") =>
        \E value \in {Next8(last.before)}, destination \in {Second8(last.before)} :
            State =
                [(IF destination < RamTop
                  THEN [last.before EXCEPT !.memory_[destination] = value]
                  ELSE last.before)
                    EXCEPT !.program_counter_ = last.before.program_counter_ + 3,
                           !.remaining_duration_ = @ - 4]

\* Reached: LDM has stored 0xFF at 0x20, where another byte was.
C33_Witness ==
    /\ last.call = "perform"
    /\ last.operation = "LDM"
    /\ last.addressing_mode = "ImmediateZeroPage"
    /\ Second8(last.before) = 32
    /\ Mem(last.before, 32) # 255
    /\ Mem(State, 32) = 255
    /\ State.program_counter_ = last.before.program_counter_ + 3

---------------------------------------------------------------------------
(* SpecPage: two stack instructions in a row (the second one where the     *)
(* first leaves the program counter, or BRK where that is unprogrammed     *)
(* memory), from stack pointers at both ends of the page.                  *)

StackOps == {"PHA", "PHP", "PLA", "PLP", "JSR", "RTS", "BRK", "RTI", "TXS"}

StackOpcodes == {opcode \in Byte : Decode(opcode).operation \in StackOps}

\* The instruction first at the base of ROM, followed by second (which is
\* also JSR's operand); the BRK vector leads to second.
InitPage ==
    \E first \in StackOpcodes, second \in StackOpcodes,
       s \in {0, 1, 2, 95, 254, 255}, x \in {0, 255}, flags \in {0, 195} :
        Holds(Machine(129, x, 1, s, RomBase, flags,
                      Image(Placed(<<first, second, second>>, RomBase)
                            @@ (InterruptVector :> Low(RomBase + 1))
                            @@ (InterruptVector + 1 :> High(RomBase + 1)),
                            0, 11),
                      8))

SpecPage == InitPage /\ [][Step]_vars

\* The number of bytes an instruction pushes, and the number it pulls.
Pushes(operation) ==
    CASE operation \in {"PHA", "PHP"} -> 1
      [] operation = "JSR" -> 2
      [] operation = "BRK" -> 3
      [] OTHER -> 0

Pulls(operation) ==
    CASE operation \in {"PLA", "PLP"} -> 1
      [] operation = "RTS" -> 2
      [] operation = "RTI" -> 3
      [] OTHER -> 0

\* The addresses at which the two states hold different bytes.
Changed(st1, st2) == {i \in Touched(st1, st2) : Mem(st1, i) # Mem(st2, i)}

\* The k-th byte a pull sequence starting at stack pointer s reads.
PulledByte(st, k) == Read(st, U8(st.s_ + k))

\* C34: every stack instruction (PHA, PHP, PLA, PLP, JSR, RTS, BRK, RTI,
\* TXS), performed after any other, accesses only page zero: a push writes
\* at the address equal to the stack pointer and then decrements the
\* pointer modulo 256, a pull increments it modulo 256 and then reads at
\* that address; the pointer stays in 0x00..0xFF, wrapping between 0x00
\* and 0xFF, and no byte of any other page changes.
C34_StackPage ==
    (last.call = "perform" /\ last.operation \in StackOps) =>
        \E before \in {last.before}, operation \in {last.operation} :
            /\ State.s_ \in 0 .. 255
            /\ State.s_ = IF operation = "TXS" THEN before.x_
                          ELSE U8(before.s_ - Pushes(operation) + Pulls(operation))
            /\ Changed(before, State) \subseteq
                    {U8(before.s_ - k) : k \in 0 .. (Pushes(operation) - 1)}
            /\ Changed(before, State) \subseteq 0 .. 255
            /\ operation = "PHA" =>
                    State.memory_ = Write(before, before.s_, before.a_).memory_
            /\ operation = "PHP" =>
                    State.memory_ = Write(before, before.s_, Flags(before)).memory_
            /\ operation = "PLA" => State.a_ = PulledByte(before, 1)
            /\ operation = "PLP" =>
                    Flags(State) = BitAnd(PulledByte(before, 1), 255 - BreakMarker)
            /\ operation = "RTS" =>
                    State.program_counter_ =
                        U16(PulledByte(before, 1) + 256 * PulledByte(before, 2) + 1)
            /\ operation = "RTI" =>
                    /\ Flags(State) = BitAnd(PulledByte(before, 1), 255 - BreakMarker)
                    /\ State.program_counter_ =
                            PulledByte(before, 2) + 256 * PulledByte(before, 3)

\* Reached: PHA with the pointer at 0x00 has written the accumulator at
\* address 0 and left the pointer at 0xFF; the PLA after it has brought the
\* pointer back to 0x00 and read that byte.
C34_Witness ==
    /\ last.call = "perform"
    /\ last.n = 2
    /\ last.operation = "PLA"
    /\ last.before.s_ = 255
    /\ State.s_ = 0
    /\ Mem(State, 0) = 129
    /\ State.a_ = 129

---------------------------------------------------------------------------
(* SpecStatus: every opcode, performed with the flags all clear or all     *)
(* set, among calls of set_flags and reset.                                *)

InitStatus ==
    \E opcode \in Byte, b1 \in {16, 240}, a \in {1, 255}, flags \in {0, 239} :
        Holds(Machine(a, 16, 1, 95, RomBase, flags,
                      Image(Placed(<<opcode, b1, 0>>, RomBase), 16, 129),
                      MaxBudget))

NextStatus ==
    \/ Step
    \/ \E flags \in {0, 1, 4, 16, 20, 255} : CallSetFlags(flags)
    \/ CallReset

SpecStatus == InitStatus /\ [][NextStatus]_vars

\* C35: whatever instructions, set_flags calls and resets came before, the
\* carry store holds 0 or 1 and the interrupt-disable store 0 or 4, flags()
\* returns a byte with bit 0x10 clear, and the byte PHP has pushed has bit
\* 0x10 clear.
C35_StatusWellFormed ==
    /\ carry_flag_ \in {0, 1}
    /\ interrupt_disable_ \in {0, 4}
    /\ BitAnd(Flags(State), BreakMarker) = 0
    /\ (last.call = "perform" /\ last.operation = "PHP"
            /\ last.before.s_ < RamTop) =>
                BitAnd(Mem(State, last.before.s_), BreakMarker) = 0

\* Reached: PHP, performed with every flag set, has pushed 0xEF.
C35_Witness ==
    /\ last.call = "perform"
    /\ last.operation = "PHP"
    /\ Flags(last.before) = 255 - BreakMarker
    /\ Mem(State, last.before.s_) = 255 - BreakMarker
    /\ carry_flag_ = 1
    /\ interrupt_disable_ = 4

---------------------------------------------------------------------------
(* SpecProgress: the loop's body, repeated for as long as its guard holds, *)
(* on every opcode; the operands make the jumps and the branches lead back *)
(* to the instruction itself.                                              *)

\* The largest budget a run starts with.
MaxRun == 12

InitProgress ==
    \E opcode \in Byte, b1 \in {0, 254}, flags \in {0, 32, 195},
       budget \in {1, MaxRun} :
        Holds(Machine(129, 16, 1, 95, RomBase, flags,
                      Image(Placed(<<opcode, b1, High(RomBase)>>, RomBase), 16, 129),
                      budget))

\* The loop's guard, CachingExecutor::run_for's: budget left, not stopped.
Running == remaining_duration_ > 0 /\ ~is_stopped_

\* The loop goes on while it can: run_for does not stall with its guard
\* true, it performs the next instruction (weak fairness of Step, whose
\* enabling condition is the guard).
SpecProgress ==
    InitProgress /\ [][Step]_vars /\ (<>[]Running => []<><<Step>>_vars)

\* C36: every instruction performed lowers the remaining budget by at
\* least 2, and a run that starts with a finite budget comes, whatever
\* memory holds, to a point where the budget is used up or the engine is
\* stopped, which is where run_for returns.
C36_Progress ==
    /\ [][remaining_duration_' <= remaining_duration_ - 2]_vars
    /\ <>(remaining_duration_ <= 0 \/ is_stopped_)

\* Reached: a jump to itself has been performed four times and more, and
\* has used the budget up.
C36_Witness ==
    /\ last.call = "perform"
    /\ last.operation = "JMP"
    /\ State.program_counter_ = last.before.program_counter_
    /\ last.n >= 4
    /\ remaining_duration_ <= 0
    /\ ~is_stopped_

---------------------------------------------------------------------------
(* SpecOvershoot: an engine with the budget at 0 is run, a few ticks at a  *)
(* time, from every opcode, with index mode clear and set.                 *)

InitOvershoot ==
    \E opcode \in Byte, flags \in {0, 32} :
        Holds(Machine(129, 16, 1, 95, RomBase, flags,
                      Image(Placed(<<opcode, 16, 16>>, RomBase), 16, 129), 0))

SpecOvershoot == InitOvershoot /\ [][NextBudget]_vars

\* The largest cost of an instruction: 6 + 3, an index-mode ADC, AND, EOR,
\* ORA or SBC in X-Indirect or Indirect-Y mode.
LargestCost == 9

\* C37: whenever run_for has returned and the engine is not stopped, the
\* remaining budget r satisfies -9 < r <= 0; the instruction at the program
\* counter costs at most 9, taken-branch penalty included.
C37_BoundedOvershoot ==
    (last.call = "run_for" /\ ~is_stopped_) =>
        /\ remaining_duration_ > 0 - LargestCost
        /\ remaining_duration_ <= 0
        /\ InstructionCost(State) <= LargestCost

\* Reached: run_for has returned with the budget at -8, after an index-mode
\* ADC (zp,X) begun with the budget at 1.
C37_Witness ==
    /\ last.call = "run_for"
    /\ ~is_stopped_
    /\ remaining_duration_ = 1 - LargestCost
    /\ last.before.remaining_duration_ + last.units = 1
    /\ PerformerFor(Fetch(last.before)) = I("ADC", "XIndirect")
    /\ last.before.index_mode_

---------------------------------------------------------------------------
(* SpecReset: engines that perform an instruction (STP among them) are    *)
(* reset and given a ROM, before the instruction and after it.             *)

InitReset ==
    \E opcode \in Byte, flags \in {0, 239}, budget \in {1, MaxBudget} :
        Holds(Machine(129, 16, 1, 95, RomBase, flags,
                      Image(Placed(<<opcode, 16, 16>>, RomBase)
                            @@ (ResetVector :> 2)
                            @@ (ResetVector + 1 :> High(RomBase)), 16, 129),
                      budget))

NextReset ==
    \/ Step
    \/ CallReset
    \/ \E rom \in {StopRom, SteadyRom(129, 0)} : CallSetRom(rom)

SpecReset == InitReset /\ [][NextReset]_vars

\* C38: reset() changes only the program counter, which becomes
\* memory[0x1FFE] | memory[0x1FFF] << 8; the accumulator, X, Y, the stack
\* pointer, the seven flags, the memory image, the remaining budget and the
\* stopped latch are as they were; an engine that was stopped before reset
\* or set_rom is still stopped after it.
C38_ResetFrame ==
    /\ last.call = "reset" =>
            State = [last.before EXCEPT !.program_counter_ =
                        Mem(last.before, ResetVector)
                            + 256 * Mem(last.before, ResetVector + 1)]
    /\ (last.call \in {"reset", "set_rom"} /\ last.before.is_stopped_) =>
            is_stopped_

\* Reached: a stopped engine with budget left over has been reset; its
\* program counter has moved, and it is still stopped with the same budget.
C38_Witness ==
    /\ last.call = "reset"
    /\ last.before.is_stopped_
    /\ is_stopped_
    /\ remaining_duration_ > 0
    /\ remaining_duration_ = last.before.remaining_duration_
    /\ program_counter_ # last.before.program_counter_

---------------------------------------------------------------------------
(* CMP, CPX and CPY, under SpecNZ: registers 0, 0x80 and 0xFF against      *)
(* operands below, equal and above, index mode clear and set.              *)

CompareOps == {"CMP", "CPX", "CPY"}

\* The value a compare instruction compares its operand with.
Compared(st, operation) ==
    CASE operation = "CMP" -> IF st.index_mode_ THEN Read(st, st.x_) ELSE st.a_
      [] operation = "CPX" -> st.x_
      [] operation = "CPY" -> st.y_

\* C39: CMP (against the accumulator, or against memory[X] with index mode
\* set), CPX and CPY, with operand v and register value r, set carry
\* exactly when r >= v, zero exactly when r = v and negative to bit 7 of
\* (r - v) mod 256, and change no register and no byte of memory.
C39_CompareSemantics ==
    (last.call = "perform" /\ last.operation \in CompareOps) =>
        \E v \in {OperandOf(last.before, last.addressing_mode)},
           r \in {Compared(last.before, last.operation)} :
            /\ carry_flag_ = IF r >= v THEN 1 ELSE 0
            /\ (BitAnd(Flags(State), 2) # 0) <=> (r = v)
            /\ BitAnd(Flags(State), 128) = BitAnd((r - v + 256) % 256, 128)
            /\ <<a_, x_, y_, s_>> = <<last.before.a_, last.before.x_,
                                      last.before.y_, last.before.s_>>
            /\ <<index_mode_, decimal_mode_, interrupt_disable_>> =
                    <<last.before.index_mode_, last.before.decimal_mode_,
                      last.before.interrupt_disable_>>
            /\ memory_ = last.before.memory_

\* Reached: CMP with index mode set has compared memory[X] with a larger
\* operand: carry clear, zero clear, negative from the wrapped difference.
C39_Witness ==
    /\ last.call = "perform"
    /\ last.operation = "CMP"
    /\ last.before.index_mode_
    /\ Compared(last.before, "CMP") # last.before.a_
    /\ Compared(last.before, "CMP") < OperandOf(last.before, last.addressing_mode)
    /\ carry_flag_ = 0
    /\ BitAnd(Flags(State), 2) = 0

---------------------------------------------------------------------------
(* read_memory, the snapshot loader's decompressor (Z80.cpp).  The file is *)
(* the sequence of bytes from the read cursor on.                          *)

\* The largest size asked for, and the longest stream given.
MaxSize == 3
MaxStream == 4

\* FileHolder::get8 on a stream: past the end of the file it yields 0xFF.
Stream8(file, at) == IF at < Len(file) THEN file[at + 1] ELSE 255

\* The marker byte of a run, 0xED.
RunMarker == 237

\* The loop of read_memory entered with the given cursor (the bytes written
\* so far are result[1 .. cursor]), file position and incoming pair.  A run
\* is copied by memset with no test against the space left: one that does
\* not fit writes past the end of the buffer, and the model ends there,
\* with the cursor the code goes on with.
RECURSIVE ReadLoop(_, _, _, _, _, _)
ReadLoop(file, size, result, cursor, at, incoming) ==
    IF incoming[1] = RunMarker /\ incoming[2] = RunMarker
    THEN \* count = file.get8(); value = file.get8(); memset; cursor += count
         LET count == Stream8(file, at)
             value == Stream8(file, at + 1)
             filled == [i \in 1 .. size |->
                            IF i > cursor /\ i <= cursor + count
                            THEN value ELSE result[i]]
         IN  IF cursor + count > size
             THEN [status |-> "overrun", result |-> filled,
                   cursor |-> cursor + count]
             ELSE IF cursor + count = size
             THEN [status |-> "returned", result |-> filled,
                   cursor |-> cursor + count]
             ELSE ReadLoop(file, size, filled, cursor + count, at + 4,
                           <<Stream8(file, at + 2), Stream8(file, at + 3)>>)
    ELSE \* result[cursor] = incoming[0]; ++cursor
         LET stored == [result EXCEPT ![cursor + 1] = incoming[1]]
         IN  IF cursor + 1 = size
             THEN [status |-> "returned", result |-> stored,
                   cursor |-> cursor + 1]
             ELSE ReadLoop(file, size, stored, cursor + 1, at + 1,
                           <<incoming[2], Stream8(file, at)>>)

\* read_memory(file, size, is_compressed)
ReadMemory(file, size, is_compressed) ==
    IF ~is_compressed
    THEN [status |-> "returned",
          result |-> [i \in 1 .. size |-> Stream8(file, i - 1)],
          cursor |-> size]
    ELSE ReadLoop(file, size, [i \in 1 .. size |-> 0], 0, 2,
                  <<Stream8(file, 0), Stream8(file, 1)>>)

\* read_memory, called by the loader, once for a file; the observer keeps
\* what came of it.
CallReadMemory(file, size, is_compressed) ==
    /\ last.call = "none"
    /\ UNCHANGED <<a_, x_, y_, s_, program_counter_, negative_result_,
                   overflow_result_, zero_result_, index_mode_, decimal_mode_,
                   interrupt_disable_, carry_flag_, memory_, cycles_,
                   remaining_duration_, is_stopped_>>
    /\ last' = [call |-> "read_memory", n |-> last.n + 1, file |-> file,
                size |-> size, is_compressed |-> is_compressed,
                outcome |-> ReadMemory(file, size, is_compressed)]

\* The streams: every sequence of up to MaxStream bytes of a few kinds (the
\* run marker, small counts, larger counts, a plain byte).
StreamBytes == {RunMarker, 0, 1, 3, 170}

RECURSIVE StreamsOf(_)
StreamsOf(length) ==
    IF length = 0 THEN {<<>>}
    ELSE {<<byte>> \o rest : byte \in StreamBytes, rest \in StreamsOf(length - 1)}

Streams == UNION {StreamsOf(length) : length \in 0 .. MaxStream}

NextInflate ==
    \E file \in Streams, size \in 1 .. MaxSize, is_compressed \in BOOLEAN :
        CallReadMemory(file, size, is_compressed)

SpecInflate == InitSnapshot /\ [][NextInflate]_vars

\* C40: read_memory with is_compressed set, on every stream of bytes, keeps
\* its write cursor at or below size, writes no run past the end of the
\* size-byte buffer, and returns with exactly size bytes produced.
C40_DecompressionInBounds ==
    (last.call = "read_memory" /\ last.is_compressed) =>
        /\ last.outcome.cursor <= last.size
        /\ last.outcome.status = "returned"
        /\ last.outcome.cursor = last.size

=============================================================================
